---- MODULE Spec2Model ----
(***************************************************************************)
(* Short-drama ranking tracker: the snapshot table (database.py) and the   *)
(* change detector (analyzer.py, analyze_platform_changes).                *)
(*                                                                         *)
(* Conventions.  None (Python None / SQL NULL) is the integer -1; ids,     *)
(* ranks, counts and crawl times are >= 0, so None sorts before every      *)
(* value, as SQL NULL does under ORDER BY ... ASC.  Crawl times are small  *)
(* integers (their order is the order of the ISO timestamps).  A           *)
(* percentage rounded to one decimal (round(x, 1)) is held in tenths of a  *)
(* percent: 562 is 56.2.  The thresholds of settings.json are positive,    *)
(* as its defaults 10, 50 and 30 are.  The clock counts days, so that the  *)
(* trailing window of analyze_theme_trends is 7 units long.                *)
(***************************************************************************)
EXTENDS Integers, Sequences, FiniteSets, TLC

VARIABLES
    dramas,                 \* the dramas table: [rows, seq]
    platform,               \* the platform of settings["platforms"]
    RANK_SURGE_THRESHOLD,   \* config.py globals, loaded once at start
    READ_COUNT_SURGE_PCT,
    COLLECT_SURGE_PCT,
    call,                   \* arguments of the last analyze_platform_changes
    current,                \* its local `current`
    previous,               \* its local `previous`
    changes,                \* its return value
    raised,                 \* TRUE when it raised instead of returning
    now,                    \* the wall clock, datetime.utcnow()
    analysis,               \* outcome of the last generate_full_analysis
    trends,                 \* outcome of the last analyze_theme_trends
    prior,                  \* the analysis made before settings.json changed
    REPORT_MAX_ITEMS,       \* config.py global, loaded once at start
    frame,                  \* the generate_full_analysis call in progress
    report,                 \* outcome of the last generate_report
    exported,               \* outcome of the last export_analysis_data
    crawl_log,              \* the crawl_log table
    run                     \* the run_full_crawl or run.main in progress

vars == <<dramas, platform, RANK_SURGE_THRESHOLD, READ_COUNT_SURGE_PCT,
          COLLECT_SURGE_PCT, call, current, previous, changes, raised,
          now, analysis, trends, prior, REPORT_MAX_ITEMS, frame, report,
          exported, crawl_log, run>>

None == -1

\* a theme column that is NULL (themes are strings)
NoTheme == "NULL"

----------------------------------------------------------------------------
(* Bounds of the input space *)

MaxItems == 4          \* longest ranking of the rank-only platform
MaxMetricItems == 2    \* longest ranking of the platforms that carry metrics
MaxThreshold == 2      \* largest configured rank surge threshold
MaxTime == 3           \* last day of the clock
MaxRows == 4           \* rows ever inserted into the table
MaxStoreItems == 2     \* longest ranking handed to insert_dramas
MaxTrendItems == 2     \* longest ranking that carries themes
MaxLost == 1           \* snapshots removed during one call
MaxDisplay == 2        \* largest configured report_max_items
MaxConfigured == 2     \* longest list of configured platforms

DramaIds == {"A", "B", "C", "D"}
MetricIds == {"A", "B"}
ReadCounts == {None, 0, 100, 130, 150, 250}     \* view counts of dramabox
ReelReadCounts == {100, 160}                    \* read counts of reelshort
CollectCounts == {0, 100, 130, 160}             \* collect counts of reelshort
PLATFORMS == {"hongguo", "dramabox", "reelshort"}
StorePlatforms == {"dramabox", "reelshort"}
ReportPlatforms == {"hongguo", "dramabox"}
StoreIds == {"A", "B"}
TrendIds == <<"A", "B", "C">>
TrendThemes == {NoTheme, "", "romance", "fantasy"}
ScenarioIds == <<"S1", "S2", "S3", "S4", "S5", "S6", "S7", "S8", "S9", "S10">>
LastCrawl == 9                  \* day of the latest crawl
EarlyTimes == {1, 3}            \* days of the first crawl of reelshort
OtherTimes == {2, 8}            \* days of the crawl of dramabox
AnalysisDays == {9, 17}         \* days at which the trends are analysed

Range(s) == {s[i] : i \in DOMAIN s}

----------------------------------------------------------------------------
(* database.py *)

Columns == {"id", "crawl_time", "platform", "drama_id", "theme", "rank",
            "read_count", "collect_count"}

\* One INSERT OR REPLACE: a row with the same (crawl_time, platform,
\* drama_id) is deleted, the new row gets the next AUTOINCREMENT id.
insert_or_replace(db, crawl_time, plat, item) ==
    LET kept == SelectSeq(db.rows, LAMBDA r:
                    ~(r.crawl_time = crawl_time /\ r.platform = plat
                      /\ r.drama_id = item.drama_id))
        row == [id |-> db.seq + 1, crawl_time |-> crawl_time,
                platform |-> plat, drama_id |-> item.drama_id,
                theme |-> item.theme, rank |-> item.rank, read_count |-> item.read_count,
                collect_count |-> item.collect_count]
    IN [rows |-> Append(kept, row), seq |-> db.seq + 1]

RECURSIVE insert_dramas(_, _, _, _)
insert_dramas(db, crawl_time, plat, items) ==
    IF items = <<>> THEN db
    ELSE insert_dramas(insert_or_replace(db, crawl_time, plat, Head(items)),
                       crawl_time, plat, Tail(items))

\* Mutant: the platform filter is left out.
get_dramas_at_any_platform(crawl_time, plat) ==
    LET rows == SelectSeq(dramas.rows, LAMBDA r: r.crawl_time = crawl_time)
        n == Len(rows)
        perms == {p \in [1..n -> 1..n] :
                    /\ \A i, j \in 1..n : i # j => p[i] # p[j]
                    /\ \A i, j \in 1..n :
                         i < j => rows[p[i]].rank <= rows[p[j]].rank}
    IN {[i \in 1..n |-> rows[p[i]]] : p \in perms}

\* SELECT * ... WHERE crawl_time=? AND platform=? ORDER BY rank.  SQL leaves
\* the order of rows of equal rank open: every ordering by rank is a result.
get_dramas_at(crawl_time, plat) ==
    LET rows == SelectSeq(dramas.rows, LAMBDA r:
                    r.crawl_time = crawl_time /\ r.platform = plat)
        n == Len(rows)
        perms == {p \in [1..n -> 1..n] :
                    /\ \A i, j \in 1..n : i # j => p[i] # p[j]
                    /\ \A i, j \in 1..n :
                         i < j => rows[p[i]].rank <= rows[p[j]].rank}
    IN {[i \in 1..n |-> rows[p[i]]] : p \in perms}

\* Mutant: the platform filter is left out.
get_previous_crawl_time_any_platform(current_time, plat) ==
    LET ts == {r.crawl_time : r \in {x \in Range(dramas.rows) :
                    x.crawl_time < current_time}}
    IN IF ts = {} THEN None ELSE CHOOSE t \in ts : \A u \in ts : u <= t

\* SELECT MAX(crawl_time) ... WHERE crawl_time < ? AND platform=?
get_previous_crawl_time(current_time, plat) ==
    LET ts == {r.crawl_time : r \in {x \in Range(dramas.rows) :
                    x.platform = plat /\ x.crawl_time < current_time}}
    IN IF ts = {} THEN None ELSE CHOOSE t \in ts : \A u \in ts : u <= t

\* Mutant: the smallest crawl time is taken.
get_latest_crawl_time_oldest ==
    LET ts == {r.crawl_time : r \in Range(dramas.rows)}
    IN IF ts = {} THEN None ELSE CHOOSE t \in ts : \A u \in ts : t <= u

\* SELECT MAX(crawl_time) FROM dramas
get_latest_crawl_time ==
    LET ts == {r.crawl_time : r \in Range(dramas.rows)}
    IN IF ts = {} THEN None ELSE CHOOSE t \in ts : \A u \in ts : u <= t

\* Mutant: the platforms of every crawl time are listed.
get_all_platforms_at_any_time(crawl_time) ==
    {r.platform : r \in Range(dramas.rows)}

\* SELECT DISTINCT platform FROM dramas WHERE crawl_time=?
get_all_platforms_at(crawl_time) ==
    {r.platform : r \in {x \in Range(dramas.rows) : x.crawl_time = crawl_time}}

\* rank sum and row count of an AVG(rank); of no row at all: Python None
NoAverage == <<0, 0>>

\* SELECT theme, COUNT(*), AVG(rank) ... WHERE platform=? AND crawl_time=?
\* AND theme IS NOT NULL GROUP BY theme.  The analyzer keys the rows by
\* theme, so their order is left out: a set of rows.
get_theme_stats(plat, crawl_time) ==
    LET rows == {r \in Range(dramas.rows) :
                    /\ r.platform = plat /\ r.crawl_time = crawl_time
                    /\ r.theme # NoTheme}
        of(theme) == {r \in rows : r.theme = theme}
        RECURSIVE sum(_)
        sum(rs) == IF rs = {} THEN 0
                   ELSE LET r == CHOOSE x \in rs : TRUE
                        IN r.rank + sum(rs \ {r})
    IN {[theme |-> theme, count |-> Cardinality(of(theme)),
         avg_rank |-> <<sum(of(theme)), Cardinality(of(theme))>>] :
            theme \in {r.theme : r \in rows}}

\* Mutant: the window is left out.
get_all_crawl_times_unwindowed(days) ==
    {r.crawl_time : r \in Range(dramas.rows)}

\* SELECT DISTINCT crawl_time FROM dramas WHERE crawl_time >= ? ORDER BY
\* crawl_time, with since = utcnow() - days: the set of these times; its
\* first element is the minimum, its last the maximum.
get_all_crawl_times(days) ==
    {r.crawl_time : r \in {x \in Range(dramas.rows) : x.crawl_time >= now - days}}

----------------------------------------------------------------------------
(* Python built-ins used by the analyzer *)

\* list.sort(key=..., reverse=...): stable; with reverse=True elements of
\* equal key still keep their original order.
\* Mutant: the reverse flag is ignored.
list_sort_ignoring_reverse(seq, keys, reverse) ==
    LET n == Len(seq)
        pos(i) == 1 + Cardinality({j \in 1..n :
                        \/ keys[j] < keys[i]
                        \/ (keys[j] = keys[i] /\ j < i)})
    IN [k \in 1..n |-> seq[CHOOSE i \in 1..n : pos(i) = k]]

\* Mutant: a reversed sort done as sort-ascending-then-reverse, which turns
\* the elements of equal key around.
list_sort_reversing_ties(seq, keys, reverse) ==
    LET n == Len(seq)
        before(i, j) == IF reverse THEN keys[i] > keys[j] ELSE keys[i] < keys[j]
        pos(i) == 1 + Cardinality({j \in 1..n :
                        \/ before(j, i)
                        \/ (keys[j] = keys[i]
                              /\ IF reverse THEN j > i ELSE j < i)})
    IN [k \in 1..n |-> seq[CHOOSE i \in 1..n : pos(i) = k]]

\* keys[i] is the key of seq[i].
list_sort(seq, keys, reverse) ==
    LET n == Len(seq)
        before(i, j) == IF reverse THEN keys[i] > keys[j] ELSE keys[i] < keys[j]
        pos(i) == 1 + Cardinality({j \in 1..n :
                        \/ before(j, i)
                        \/ (keys[j] = keys[i] /\ j < i)})
    IN [k \in 1..n |-> seq[CHOOSE i \in 1..n : pos(i) = k]]

\* round(num / den * 100, 1) in tenths of a percent, for num >= 0, den > 0:
\* round half to even on the exact quotient.
round1(num, den) ==
    LET q == (num * 1000) \div den
        r == (num * 1000) % den
    IN IF 2 * r > den THEN q + 1
       ELSE IF 2 * r < den THEN q
       ELSE IF q % 2 = 0 THEN q ELSE q + 1

\* x or 0
or0(x) == IF x = None THEN 0 ELSE x

\* {d['drama_id']: d for d in rows}: a later row of the same id overwrites.
dict_of(rows) ==
    [did \in {r.drama_id : r \in Range(rows)} |->
        rows[CHOOSE i \in DOMAIN rows :
                /\ rows[i].drama_id = did
                /\ \A j \in DOMAIN rows : rows[j].drama_id = did => j <= i]]

\* The keys of that dict in iteration order: the order of first insertion.
dict_keys(rows) ==
    LET firsts == SelectSeq([i \in DOMAIN rows |-> i], LAMBDA i:
                      \A j \in 1..(i - 1) : rows[j].drama_id # rows[i].drama_id)
    IN [k \in DOMAIN firsts |-> rows[firsts[k]].drama_id]

\* {**drama, key: value, ...}: a copy of drama with the fields of extra
with_fields(drama, extra) == extra @@ drama

Map(seq, f(_)) == [i \in DOMAIN seq |-> f(seq[i])]

----------------------------------------------------------------------------
(* analyzer.py, analyze_platform_changes *)

is_new_entry(drama, prev_map) == drama.drama_id \notin DOMAIN prev_map

rank_diff(prev, drama) == prev.rank - drama.rank    \* positive = moved up

\* Mutant: only a move of exactly the threshold is a surge.
is_rank_surge_exact(diff) == diff = RANK_SURGE_THRESHOLD

\* Mutant: the threshold itself is not a surge.
is_rank_surge_strict(diff) == diff > RANK_SURGE_THRESHOLD

is_rank_surge(diff) == diff >= RANK_SURGE_THRESHOLD

\* Mutant: the threshold itself is not a drop.
is_rank_drop_strict(diff) == diff < -RANK_SURGE_THRESHOLD

\* the elif branch of the surge test
is_rank_drop(diff) == ~is_rank_surge(diff) /\ diff <= -RANK_SURGE_THRESHOLD

\* Mutant: only a move beyond the surge threshold counts as a move up.
is_mover_up_beyond(diff) == diff > RANK_SURGE_THRESHOLD

\* Mutant: an unchanged rank counts as a move up.
is_mover_up_inclusive(diff) == diff >= 0

\* Mutant: the movers are cut by the surge threshold too.
is_mover_up_thresholded(diff) == diff >= RANK_SURGE_THRESHOLD

is_mover_up(diff) == diff > 0

is_mover_down(diff) == ~is_mover_up(diff) /\ diff < 0

\* Mutant: the guard lets a previous count of 0 through.
divides_nonnegative(prev_count) == prev_count >= 0

\* if prev_reads > 0: the guard of the division
divides(prev_count) == prev_count > 0

\* Mutant: growth of exactly the threshold is not a surge.
is_count_surge_strict(prev_count, curr_count, pct) ==
    /\ divides(prev_count)
    /\ (curr_count - prev_count) * 100 > pct * prev_count

\* prev > 0 and ((curr - prev) / prev) * 100 >= pct
is_count_surge(prev_count, curr_count, pct) ==
    /\ divides(prev_count)
    /\ (curr_count - prev_count) * 100 >= pct * prev_count

\* The same statements raise TypeError when an operand of > or - is None
\* and ZeroDivisionError when the divisor is 0.
count_raises(prev_count, curr_count) ==
    \/ prev_count = None
    \/ divides(prev_count) /\ (curr_count = None \/ prev_count = 0)

\* Mutant: the membership test of the exit loop is inverted.
is_exit_inverted(did, curr_map) == did \in DOMAIN curr_map

is_exit(did, curr_map) == did \notin DOMAIN curr_map

ranked(prev, drama) ==
    with_fields(drama, [prev_rank |-> prev.rank,
                        rank_change |-> rank_diff(prev, drama)])

read_surged(prev, drama) ==
    with_fields(drama,
        [prev_read_count |-> or0(prev.read_count),
         read_change_pct |-> round1(or0(drama.read_count) - or0(prev.read_count),
                                    or0(prev.read_count))])

collect_surged(prev, drama) ==
    with_fields(drama,
        [prev_collect_count |-> or0(prev.collect_count),
         collect_change_pct |->
             round1(or0(drama.collect_count) - or0(prev.collect_count),
                    or0(prev.collect_count))])

\* Mutant: new entries sorted with reverse=True like the lists around it.
sort_changes_new_entries_reversed(c) ==
    [c EXCEPT !.new_entries =
        list_sort(c.new_entries, [i \in DOMAIN c.new_entries |-> c.new_entries[i].rank],
                  TRUE)]

sort_changes(c) ==
    LET by_rank(l) == [i \in DOMAIN l |-> l[i].rank]
        by_rank_change(l) == [i \in DOMAIN l |-> l[i].rank_change]
        by_read_pct(l) == [i \in DOMAIN l |-> l[i].read_change_pct]
        by_collect_pct(l) == [i \in DOMAIN l |-> l[i].collect_change_pct]
    IN
    [new_entries     |-> list_sort(c.new_entries, by_rank(c.new_entries), FALSE),
     rank_surges     |-> list_sort(c.rank_surges,
                                   by_rank_change(c.rank_surges), TRUE),
     rank_drops      |-> list_sort(c.rank_drops,
                                   by_rank_change(c.rank_drops), FALSE),
     read_surges     |-> list_sort(c.read_surges,
                                   by_read_pct(c.read_surges), TRUE),
     collect_surges  |-> list_sort(c.collect_surges,
                                   by_collect_pct(c.collect_surges), TRUE),
     exits           |-> c.exits,
     top_movers_up   |-> list_sort(c.top_movers_up,
                                   by_rank_change(c.top_movers_up), TRUE),
     top_movers_down |-> list_sort(c.top_movers_down,
                                   by_rank_change(c.top_movers_down), FALSE)]

\* The body of analyze_platform_changes after the two get_dramas_at calls.
analyze_platform_changes(cur, prev_rows) ==
    LET prev_map == dict_of(prev_rows)
        curr_map == dict_of(cur)
        known == SelectSeq(cur, LAMBDA d: ~is_new_entry(d, prev_map))
        diff(d) == rank_diff(prev_map[d.drama_id], d)
        rk(d) == ranked(prev_map[d.drama_id], d)
    IN sort_changes(
        [new_entries |-> SelectSeq(cur, LAMBDA d: is_new_entry(d, prev_map)),
         rank_surges |->
            Map(SelectSeq(known, LAMBDA d: is_rank_surge(diff(d))), rk),
         rank_drops |->
            Map(SelectSeq(known, LAMBDA d: is_rank_drop(diff(d))), rk),
         read_surges |->
            Map(SelectSeq(known, LAMBDA d:
                    is_count_surge(or0(prev_map[d.drama_id].read_count),
                                   or0(d.read_count), READ_COUNT_SURGE_PCT)),
                LAMBDA d: read_surged(prev_map[d.drama_id], d)),
         collect_surges |->
            Map(SelectSeq(known, LAMBDA d:
                    is_count_surge(or0(prev_map[d.drama_id].collect_count),
                                   or0(d.collect_count), COLLECT_SURGE_PCT)),
                LAMBDA d: collect_surged(prev_map[d.drama_id], d)),
         exits |->
            Map(SelectSeq(dict_keys(prev_rows),
                          LAMBDA did: is_exit(did, curr_map)),
                LAMBDA did: prev_map[did]),
         top_movers_up |->
            Map(SelectSeq(known, LAMBDA d: is_mover_up(diff(d))), rk),
         top_movers_down |->
            Map(SelectSeq(known, LAMBDA d: is_mover_down(diff(d))), rk)])

\* prev_rank - curr_rank raises TypeError when a rank is None (a row
\* inserted without a rank; every crawler numbers its items).
rank_raises(prev, drama) == prev.rank = None \/ drama.rank = None

\* list.sort raises TypeError when it compares None: two or more keys, one
\* of them None.
sort_raises(keys) == Len(keys) >= 2 /\ \E i \in DOMAIN keys : keys[i] = None

\* An exception escapes the loop over current, or the sort of new_entries.
analyze_raises(cur, prev_rows) ==
    LET prev_map == dict_of(prev_rows)
        new_entries == SelectSeq(cur, LAMBDA d: is_new_entry(d, prev_map))
    IN \/ \E i \in DOMAIN cur :
            /\ ~is_new_entry(cur[i], prev_map)
            /\ LET prev == prev_map[cur[i].drama_id]
               IN \/ rank_raises(prev, cur[i])
                  \/ count_raises(or0(prev.read_count), or0(cur[i].read_count))
                  \/ count_raises(or0(prev.collect_count),
                                  or0(cur[i].collect_count))
       \/ sort_raises([i \in DOMAIN new_entries |-> new_entries[i].rank])

\* The change set before any drama is classified.
NoChanges ==
    [new_entries |-> <<>>, rank_surges |-> <<>>, rank_drops |-> <<>>,
     read_surges |-> <<>>, collect_surges |-> <<>>, exits |-> <<>>,
     top_movers_up |-> <<>>, top_movers_down |-> <<>>]

\* analyze_theme_trends(platform, days=7): the default of days
TrendDays == 7

\* Mutant: the change is taken from the earliest side.
trend_record_reversed(theme, latest_themes, earliest_themes) ==
    LET count(stats) == IF \E t \in stats : t.theme = theme
                        THEN (CHOOSE t \in stats : t.theme = theme).count
                        ELSE 0
    IN [theme |-> theme,
        current_count |-> count(latest_themes),
        previous_count |-> count(earliest_themes),
        change |-> count(earliest_themes) - count(latest_themes),
        avg_rank |-> IF \E t \in latest_themes : t.theme = theme
                     THEN (CHOOSE t \in latest_themes : t.theme = theme).avg_rank
                     ELSE NoAverage]

\* The record appended for one theme; .get(theme, {}).get('count', 0).
trend_record(theme, latest_themes, earliest_themes) ==
    LET count(stats) == IF \E t \in stats : t.theme = theme
                        THEN (CHOOSE t \in stats : t.theme = theme).count
                        ELSE 0
    IN [theme |-> theme,
        current_count |-> count(latest_themes),
        previous_count |-> count(earliest_themes),
        change |-> count(latest_themes) - count(earliest_themes),
        avg_rank |-> IF \E t \in latest_themes : t.theme = theme
                     THEN (CHOOSE t \in latest_themes : t.theme = theme).avg_rank
                     ELSE NoAverage]

\* The lists analyze_theme_trends(plat) can return.  all_themes is a Python
\* set, whose iteration order is not fixed: the records are appended in any
\* order and then sorted, stably, by change, descending.
analyze_theme_trends(plat) ==
    LET crawl_times == get_all_crawl_times(TrendDays)
    IN IF Cardinality(crawl_times) < 2 THEN {<<>>}
       ELSE
        LET latest == CHOOSE t \in crawl_times : \A u \in crawl_times : u <= t
            earliest == CHOOSE t \in crawl_times : \A u \in crawl_times : t <= u
            latest_themes == get_theme_stats(plat, latest)
            earliest_themes == get_theme_stats(plat, earliest)
            all_themes == {t.theme : t \in latest_themes \cup earliest_themes}
            records == {trend_record(theme, latest_themes, earliest_themes) :
                           theme \in {t \in all_themes : t # ""}}
            n == Cardinality(records)
            orders == {f \in [1..n -> records] :
                          \A i, j \in 1..n : i # j => f[i] # f[j]}
        IN {list_sort(f, [i \in 1..n |-> f[i].change], TRUE) : f \in orders}

\* The entries generate_full_analysis can build for one platform: the
\* previous time is the platform's own, the changes come from the two
\* snapshots as the table returns them.
platform_entries(crawl_time, plat) ==
    LET prev_time == get_previous_crawl_time(crawl_time, plat)
    IN {[raised |-> analyze_raises(pair[1], pair[2]),
         changes |-> IF analyze_raises(pair[1], pair[2]) THEN NoChanges
                     ELSE analyze_platform_changes(pair[1], pair[2]),
         previous_time |-> prev_time] :
            pair \in get_dramas_at(crawl_time, plat) \X
                     (IF prev_time # None THEN get_dramas_at(prev_time, plat)
                      ELSE {<<>>})}

\* The values generate_full_analysis(crawl_time) can produce: absent when no
\* time is given and none is stored, raised when a platform's analysis
\* raises, else the analysis of every platform stored at the resolved time.
generate_full_analysis(arg) ==
    LET crawl_time == IF arg # None THEN arg ELSE get_latest_crawl_time
    IN IF crawl_time = None THEN {[status |-> "absent", arg |-> arg]}
       ELSE
        LET platforms == get_all_platforms_at(crawl_time)
        IN UNION {
            {IF \E p \in platforms : entry[p].raised
             THEN [status |-> "raised", arg |-> arg]
             ELSE [status |-> "ok", arg |-> arg, crawl_time |-> crawl_time,
                   platforms |-> [p \in platforms |->
                        [changes |-> entry[p].changes,
                         previous_time |-> entry[p].previous_time]],
                   theme_trends |-> theme_trends] :
                theme_trends \in {tt \in [platforms ->
                        UNION {analyze_theme_trends(p) : p \in platforms}] :
                        \A p \in platforms : tt[p] \in analyze_theme_trends(p)}}
            : entry \in {e \in [platforms ->
                        UNION {platform_entries(crawl_time, p) : p \in platforms}] :
                        \A p \in platforms : e[p] \in platform_entries(crawl_time, p)}}

----------------------------------------------------------------------------
(* crawler.py: what a crawler hands to insert_dramas *)

\* Rankings of at most maxn distinct dramas, ranked 1..n by enumerate(.., 1).
Rankings(ids, maxn, reads, collects) ==
    UNION {
        {[i \in 1..n |-> [drama_id |-> f[i][1], theme |-> NoTheme, rank |-> i,
                          read_count |-> f[i][2], collect_count |-> f[i][3]]] :
            f \in {g \in [1..n -> ids \X reads \X collects] :
                     \A i, j \in 1..n : i # j => g[i][1] # g[j][1]}}
        : n \in 0..maxn}

\* hongguo exposes no counts, dramabox a view count only, reelshort both.
crawl(plat) ==
    CASE plat = "hongguo"   -> Rankings(DramaIds, MaxItems, {None}, {None})
      [] plat = "dramabox"  -> Rankings(MetricIds, MaxMetricItems, ReadCounts, {None})
      [] plat = "reelshort" ->
            Rankings(MetricIds, MaxMetricItems, ReelReadCounts, CollectCounts)

EmptyDb == [rows |-> <<>>, seq |-> 0]

NoCall == [platform |-> "", current_time |-> None, previous_time |-> None]

NoAnalysis == [status |-> "none"]

NoTrends == [platform |-> "", result |-> <<>>]

NoPrior == [threshold |-> None, changes |-> NoChanges]

NoFrame == [pc |-> "idle"]

NoReport == [kind |-> "none"]

NoExport == [status |-> "none"]

NoRun == [pc |-> "idle"]

\* The snapshots of the scenario of the specification, as two crawls.
ScenarioPrevious ==
    << [drama_id |-> "A", theme |-> NoTheme, rank |-> 1, read_count |-> None, collect_count |-> None],
       [drama_id |-> "B", theme |-> NoTheme, rank |-> 2, read_count |-> 100, collect_count |-> None],
       [drama_id |-> "C", theme |-> NoTheme, rank |-> 3, read_count |-> None, collect_count |-> None] >>

ScenarioCurrent ==
    << [drama_id |-> "B", theme |-> NoTheme, rank |-> 1, read_count |-> 160, collect_count |-> None],
       [drama_id |-> "D", theme |-> NoTheme, rank |-> 2, read_count |-> None, collect_count |-> None],
       [drama_id |-> "A", theme |-> NoTheme, rank |-> 3, read_count |-> None, collect_count |-> None] >>

\* The table after two crawls of the configured platform.
InitCrawled ==
    /\ platform \in PLATFORMS
    /\ RANK_SURGE_THRESHOLD \in 1..MaxThreshold
    /\ \E first \in crawl(platform), second \in crawl(platform) :
          dramas = insert_dramas(insert_dramas(EmptyDb, 1, platform, first),
                                 2, platform, second)

InitScenario ==
    /\ platform = "dramabox"
    /\ RANK_SURGE_THRESHOLD = 2
    /\ dramas = insert_dramas(insert_dramas(EmptyDb, 1, platform, ScenarioPrevious),
                              2, platform, ScenarioCurrent)

Init ==
    /\ InitScenario \/ InitCrawled
    /\ READ_COUNT_SURGE_PCT = 50
    /\ COLLECT_SURGE_PCT = 30
    /\ call = NoCall
    /\ current = <<>>
    /\ previous = <<>>
    /\ changes = NoChanges
    /\ raised = FALSE
    /\ now = 2
    /\ analysis = NoAnalysis
    /\ trends = NoTrends
    /\ prior = NoPrior
    /\ REPORT_MAX_ITEMS = 10
    /\ frame = NoFrame
    /\ report = NoReport
    /\ exported = NoExport
    /\ crawl_log = <<>>
    /\ run = NoRun

\* generate_full_analysis() for one platform of its loop: the latest crawl
\* time is resolved, the platform's previous crawl time is looked up, then
\* analyze_platform_changes reads both snapshots.
AnalyzePlatform ==
    \E current_time \in {get_latest_crawl_time} \ {None} :
        LET previous_time == get_previous_crawl_time(current_time, platform)
        IN \E plat \in get_all_platforms_at(current_time) \cap {platform},
              cur \in get_dramas_at(current_time, platform),
              prev_rows \in (IF previous_time # None
                             THEN get_dramas_at(previous_time, platform)
                             ELSE {<<>>}) :
            /\ call' = [platform |-> platform, current_time |-> current_time,
                        previous_time |-> previous_time]
            /\ current' = cur
            /\ previous' = prev_rows
            /\ raised' = analyze_raises(cur, prev_rows)
            /\ changes' = IF raised' THEN NoChanges
                           ELSE analyze_platform_changes(cur, prev_rows)
            /\ UNCHANGED <<dramas, platform, RANK_SURGE_THRESHOLD,
                           READ_COUNT_SURGE_PCT, COLLECT_SURGE_PCT,
                           now, analysis, trends, prior,
                           REPORT_MAX_ITEMS, frame, report, exported, crawl_log, run>>

Next == AnalyzePlatform

Spec == Init /\ [][Next]_vars

\* settings.json is edited after an analysis and the tracker is started
\* again: config.py loads the new rank_surge_threshold; the table is as it
\* was and nothing of the earlier run is live.
Reconfigure ==
    \E threshold \in (1..MaxThreshold) \ {RANK_SURGE_THRESHOLD} :
        /\ call.current_time # None
        /\ ~raised
        /\ RANK_SURGE_THRESHOLD' = threshold
        /\ prior' = [threshold |-> RANK_SURGE_THRESHOLD, changes |-> changes]
        /\ call' = NoCall
        /\ current' = <<>>
        /\ previous' = <<>>
        /\ changes' = NoChanges
        /\ raised' = FALSE
        /\ UNCHANGED <<dramas, platform, READ_COUNT_SURGE_PCT,
                       COLLECT_SURGE_PCT, now, analysis, trends,
                       REPORT_MAX_ITEMS, frame, report, exported, crawl_log, run>>

\* The rank-only platform under every threshold.
InitConfig == Init /\ platform = "hongguo"

NextConfig == AnalyzePlatform \/ Reconfigure

SpecConfig == InitConfig /\ [][NextConfig]_vars

----------------------------------------------------------------------------
(* The table over time: crawl runs insert rankings, the clock advances,
   generate_full_analysis reads the table *)

\* A crawler's non-empty result for one platform of run_full_crawl.
StoreRankings == Rankings(StoreIds, MaxStoreItems, {None}, {None}) \ {<<>>}

InitStore ==
    /\ dramas = EmptyDb
    /\ platform = "dramabox"
    /\ RANK_SURGE_THRESHOLD = 1
    /\ READ_COUNT_SURGE_PCT = 50
    /\ COLLECT_SURGE_PCT = 30
    /\ call = NoCall
    /\ current = <<>>
    /\ previous = <<>>
    /\ changes = NoChanges
    /\ raised = FALSE
    /\ now = 1
    /\ analysis = NoAnalysis
    /\ trends = NoTrends
    /\ prior = NoPrior
    /\ REPORT_MAX_ITEMS = 10
    /\ frame = NoFrame
    /\ report = NoReport
    /\ exported = NoExport
    /\ crawl_log = <<>>
    /\ run = NoRun

\* One platform of run_full_crawl: the crawler's items are inserted under
\* the run's crawl time.  Two runs within one second of the clock, or a
\* platform listed twice in the settings, insert under the same pair.
InsertDramas ==
    \E plat \in StorePlatforms, items \in StoreRankings :
        /\ dramas.seq + Len(items) <= MaxRows
        /\ dramas' = insert_dramas(dramas, now, plat, items)
        /\ analysis' = NoAnalysis
        /\ UNCHANGED <<platform, RANK_SURGE_THRESHOLD, READ_COUNT_SURGE_PCT,
                       COLLECT_SURGE_PCT, call, current, previous, changes,
                       raised, now, trends, prior,
                       REPORT_MAX_ITEMS, frame, report, exported, crawl_log, run>>

\* Time passes between two runs.
Tick ==
    /\ now < MaxTime
    /\ now' = now + 1
    /\ analysis' = NoAnalysis
    /\ UNCHANGED <<dramas, platform, RANK_SURGE_THRESHOLD, READ_COUNT_SURGE_PCT,
                   COLLECT_SURGE_PCT, call, current, previous, changes,
                   raised, trends, prior,
                   REPORT_MAX_ITEMS, frame, report, exported, crawl_log, run>>

\* generate_full_analysis(crawl_time=None), whole.
GenerateFullAnalysis ==
    \E arg \in {None} \cup {r.crawl_time : r \in Range(dramas.rows)} :
        /\ analysis' \in generate_full_analysis(arg)
        /\ UNCHANGED <<dramas, platform, RANK_SURGE_THRESHOLD,
                       READ_COUNT_SURGE_PCT, COLLECT_SURGE_PCT, call, current,
                       previous, changes, raised, now, trends, prior,
                       REPORT_MAX_ITEMS, frame, report, exported, crawl_log, run>>

NextStore == InsertDramas \/ Tick \/ GenerateFullAnalysis

SpecStore == InitStore /\ [][NextStore]_vars

----------------------------------------------------------------------------
(* Theme trends: a table of themed snapshots, read by analyze_theme_trends *)

\* Rankings of 1..MaxTrendItems dramas, ranked by position, each with a
\* theme column: NULL, the empty string, or a serialised tag list.
TrendRankings ==
    UNION {
        {[i \in 1..n |-> [drama_id |-> TrendIds[i], theme |-> themes[i],
                          rank |-> i, read_count |-> None,
                          collect_count |-> None]] :
            themes \in [1..n -> TrendThemes]}
        : n \in 1..MaxTrendItems}

\* The example of the theme counts 5 romance, then 8 romance and 2 fantasy.
ScenarioEarliest ==
    [i \in 1..5 |-> [drama_id |-> ScenarioIds[i], theme |-> "romance",
                     rank |-> i, read_count |-> None, collect_count |-> None]]

ScenarioLatest ==
    [i \in 1..10 |-> [drama_id |-> ScenarioIds[i],
                      theme |-> IF i <= 8 THEN "romance" ELSE "fantasy",
                      rank |-> i, read_count |-> None, collect_count |-> None]]

\* What one crawl of the other platform stores.
OtherRanking ==
    << [drama_id |-> "A", theme |-> "romance", rank |-> 1,
        read_count |-> None, collect_count |-> None] >>

\* reelshort was crawled at an early time and at LastCrawl; dramabox once
\* or never.  The rows are inserted in the order of their crawl times.
InitTrendsCrawled ==
    \E first \in TrendRankings, second \in TrendRankings,
       early \in EarlyTimes, other \in OtherTimes \cup {None} :
        LET rows == {<<early, "reelshort", first>>,
                     <<LastCrawl, "reelshort", second>>} \cup
                    (IF other = None THEN {}
                     ELSE {<<other, "dramabox", OtherRanking>>})
            RECURSIVE load(_, _)
            load(db, rest) ==
                IF rest = {} THEN db
                ELSE LET r == CHOOSE x \in rest : \A y \in rest : x[1] <= y[1]
                     IN load(insert_dramas(db, r[1], r[2], r[3]), rest \ {r})
        IN dramas = load(EmptyDb, rows)

InitTrendsScenario ==
    dramas = insert_dramas(insert_dramas(EmptyDb, LastCrawl - 1, "reelshort",
                                         ScenarioEarliest),
                           LastCrawl, "reelshort", ScenarioLatest)

InitTrends ==
    /\ InitTrendsScenario \/ InitTrendsCrawled
    /\ now \in AnalysisDays
    /\ platform = "reelshort"
    /\ RANK_SURGE_THRESHOLD = 1
    /\ READ_COUNT_SURGE_PCT = 50
    /\ COLLECT_SURGE_PCT = 30
    /\ call = NoCall
    /\ current = <<>>
    /\ previous = <<>>
    /\ changes = NoChanges
    /\ raised = FALSE
    /\ analysis = NoAnalysis
    /\ trends = NoTrends
    /\ prior = NoPrior
    /\ REPORT_MAX_ITEMS = 10
    /\ frame = NoFrame
    /\ report = NoReport
    /\ exported = NoExport
    /\ crawl_log = <<>>
    /\ run = NoRun

\* analyze_theme_trends(plat), for a platform of the table.
AnalyzeThemeTrends ==
    \E plat \in {r.platform : r \in Range(dramas.rows)} :
        /\ \E result \in analyze_theme_trends(plat) :
              trends' = [platform |-> plat, result |-> result]
        /\ UNCHANGED <<dramas, platform, RANK_SURGE_THRESHOLD,
                       READ_COUNT_SURGE_PCT, COLLECT_SURGE_PCT, call, current,
                       previous, changes, raised, now, analysis, prior,
                       REPORT_MAX_ITEMS, frame, report, exported, crawl_log, run>>

NextTrends == AnalyzeThemeTrends

SpecTrends == InitTrends /\ [][NextTrends]_vars

----------------------------------------------------------------------------
(* A table in which one platform holds rows inserted without a rank *)

\* Rankings whose items may lack the rank key: item.get('rank') is None.
UnrankedRankings ==
    {[i \in DOMAIN items |->
        [items[i] EXCEPT !.rank = IF i \in unranked THEN None ELSE @]] :
        items \in StoreRankings, unranked \in SUBSET (1..MaxStoreItems)}

\* dramabox was stored twice by a caller of insert_dramas that may leave the
\* rank out, reelshort once by its crawler.
InitFailure ==
    /\ \E first \in UnrankedRankings, second \in UnrankedRankings,
          other \in StoreRankings :
          dramas = insert_dramas(
                      insert_dramas(
                          insert_dramas(EmptyDb, 1, "dramabox", first),
                          2, "dramabox", second),
                      2, "reelshort", other)
    /\ platform = "dramabox"
    /\ RANK_SURGE_THRESHOLD = 1
    /\ READ_COUNT_SURGE_PCT = 50
    /\ COLLECT_SURGE_PCT = 30
    /\ call = NoCall
    /\ current = <<>>
    /\ previous = <<>>
    /\ changes = NoChanges
    /\ raised = FALSE
    /\ now = 2
    /\ analysis = NoAnalysis
    /\ trends = NoTrends
    /\ prior = NoPrior
    /\ REPORT_MAX_ITEMS = 10
    /\ frame = NoFrame
    /\ report = NoReport
    /\ exported = NoExport
    /\ crawl_log = <<>>
    /\ run = NoRun

NextFailure == GenerateFullAnalysis

SpecFailure == InitFailure /\ [][NextFailure]_vars

----------------------------------------------------------------------------
(* generate_full_analysis read by read, next to a process that removes a
   snapshot from the table (the SQLite file is shared, and no transaction
   spans the reads of one call) *)

\* The orders in which SELECT DISTINCT platform can list a set of platforms.
Listings(platforms) ==
    {s \in [1..Cardinality(platforms) -> platforms] :
        \A i, j \in DOMAIN s : i # j => s[i] # s[j]}

\* The table without the rows of one (platform, crawl_time) pair.
without_snapshot(db, plat, crawl_time) ==
    [db EXCEPT !.rows = SelectSeq(db.rows, LAMBDA r :
                            ~(r.platform = plat /\ r.crawl_time = crawl_time))]

\* The returned analysis, once the loop over the platforms has ended.
finished(f) ==
    LET done == {f.platforms[i].platform : i \in DOMAIN f.platforms}
        entry(p) == f.platforms[CHOOSE i \in DOMAIN f.platforms :
                                    f.platforms[i].platform = p]
        trend(p) == f.theme_trends[CHOOSE i \in DOMAIN f.theme_trends :
                                       f.theme_trends[i].platform = p]
    IN [status |-> "ok", arg |-> f.arg, crawl_time |-> f.crawl_time,
        platforms |-> [p \in done |->
                          [changes |-> entry(p).changes,
                           previous_time |-> entry(p).previous_time]],
        theme_trends |-> [p \in done |-> trend(p).trends]]

InitRace ==
    /\ \E first \in StoreRankings, second \in StoreRankings,
          other \in StoreRankings :
          dramas = insert_dramas(
                      insert_dramas(
                          insert_dramas(EmptyDb, 1, "dramabox", first),
                          2, "dramabox", second),
                      2, "reelshort", other)
    /\ platform = "dramabox"
    /\ RANK_SURGE_THRESHOLD = 1
    /\ READ_COUNT_SURGE_PCT = 50
    /\ COLLECT_SURGE_PCT = 30
    /\ call = NoCall
    /\ current = <<>>
    /\ previous = <<>>
    /\ changes = NoChanges
    /\ raised = FALSE
    /\ now = 2
    /\ analysis = NoAnalysis
    /\ trends = NoTrends
    /\ prior = NoPrior
    /\ REPORT_MAX_ITEMS = 10
    /\ frame = NoFrame
    /\ report = NoReport
    /\ exported = NoExport
    /\ crawl_log = <<>>
    /\ run = NoRun

\* crawl_time = get_latest_crawl_time(); return None when there is none
ResolveTime ==
    /\ frame.pc = "idle"
    /\ analysis.status = "none"
    /\ LET crawl_time == get_latest_crawl_time
       IN IF crawl_time = None
          THEN /\ analysis' = [status |-> "absent", arg |-> None]
               /\ frame' = [pc |-> "done", lost |-> {}]
          ELSE /\ analysis' = analysis
               /\ frame' = [pc |-> "platforms", arg |-> None,
                            crawl_time |-> crawl_time, todo |-> <<>>,
                            previous_time |-> None, current |-> <<>>,
                            platforms |-> <<>>, theme_trends |-> <<>>,
                            lost |-> {}]
    /\ UNCHANGED <<dramas, platform, RANK_SURGE_THRESHOLD,
                   READ_COUNT_SURGE_PCT, COLLECT_SURGE_PCT, call, current,
                   previous, changes, raised, now, trends, prior,
                   REPORT_MAX_ITEMS, report, exported, crawl_log, run>>

\* platforms = get_all_platforms_at(crawl_time); an empty loop returns
ListPlatforms ==
    /\ frame.pc = "platforms"
    /\ \E todo \in Listings(get_all_platforms_at(frame.crawl_time)) :
          IF todo = <<>>
          THEN /\ analysis' = finished(frame)
               /\ frame' = [frame EXCEPT !.pc = "done"]
          ELSE /\ analysis' = analysis
               /\ frame' = [frame EXCEPT !.pc = "previous", !.todo = todo]
    /\ UNCHANGED <<dramas, platform, RANK_SURGE_THRESHOLD,
                   READ_COUNT_SURGE_PCT, COLLECT_SURGE_PCT, call, current,
                   previous, changes, raised, now, trends, prior,
                   REPORT_MAX_ITEMS, report, exported, crawl_log, run>>

\* prev_time = get_previous_crawl_time(crawl_time, platform)
ReadPreviousTime ==
    /\ frame.pc = "previous"
    /\ frame' = [frame EXCEPT
                    !.pc = "current",
                    !.previous_time =
                        get_previous_crawl_time(frame.crawl_time, Head(frame.todo))]
    /\ UNCHANGED <<dramas, platform, RANK_SURGE_THRESHOLD,
                   READ_COUNT_SURGE_PCT, COLLECT_SURGE_PCT, call, current,
                   previous, changes, raised, now, analysis, trends, prior,
                   REPORT_MAX_ITEMS, report, exported, crawl_log, run>>

\* analyze_platform_changes: current = get_dramas_at(current_time, platform)
ReadCurrent ==
    /\ frame.pc = "current"
    /\ \E cur \in get_dramas_at(frame.crawl_time, Head(frame.todo)) :
          frame' = [frame EXCEPT !.pc = "compare", !.current = cur]
    /\ UNCHANGED <<dramas, platform, RANK_SURGE_THRESHOLD,
                   READ_COUNT_SURGE_PCT, COLLECT_SURGE_PCT, call, current,
                   previous, changes, raised, now, analysis, trends, prior,
                   REPORT_MAX_ITEMS, report, exported, crawl_log, run>>

\* analyze_platform_changes from its read of previous to its return, and
\* the entry of analysis['platforms']; an exception ends the call.
ComparePrevious ==
    /\ frame.pc = "compare"
    /\ \E prev_rows \in (IF frame.previous_time # None
                         THEN get_dramas_at(frame.previous_time, Head(frame.todo))
                         ELSE {<<>>}) :
          IF analyze_raises(frame.current, prev_rows)
          THEN /\ analysis' = [status |-> "raised", arg |-> frame.arg]
               /\ frame' = [frame EXCEPT !.pc = "done"]
          ELSE /\ analysis' = analysis
               /\ frame' = [frame EXCEPT
                    !.pc = "trends",
                    !.platforms = Append(@,
                        [platform |-> Head(frame.todo),
                         changes |-> analyze_platform_changes(frame.current,
                                                              prev_rows),
                         previous_time |-> frame.previous_time])]
    /\ UNCHANGED <<dramas, platform, RANK_SURGE_THRESHOLD,
                   READ_COUNT_SURGE_PCT, COLLECT_SURGE_PCT, call, current,
                   previous, changes, raised, now, trends, prior,
                   REPORT_MAX_ITEMS, report, exported, crawl_log, run>>

\* analysis['theme_trends'][platform] = analyze_theme_trends(platform), then
\* the next platform, or the return after the last one.
ReadThemeTrends ==
    /\ frame.pc = "trends"
    /\ \E theme_trends \in analyze_theme_trends(Head(frame.todo)) :
          LET next == [frame EXCEPT
                          !.todo = Tail(@),
                          !.theme_trends = Append(@,
                              [platform |-> Head(frame.todo),
                               trends |-> theme_trends])]
          IN IF next.todo = <<>>
             THEN /\ analysis' = finished(next)
                  /\ frame' = [next EXCEPT !.pc = "done"]
             ELSE /\ analysis' = analysis
                  /\ frame' = [next EXCEPT !.pc = "previous"]
    /\ UNCHANGED <<dramas, platform, RANK_SURGE_THRESHOLD,
                   READ_COUNT_SURGE_PCT, COLLECT_SURGE_PCT, call, current,
                   previous, changes, raised, now, trends, prior,
                   REPORT_MAX_ITEMS, report, exported, crawl_log, run>>

\* Another process removes a snapshot while the call is between two reads.
\* The frame notes which snapshot went and whether the call had read it.
SnapshotVanishes ==
    /\ frame.pc \in {"platforms", "previous", "current", "compare", "trends"}
    /\ Cardinality(frame.lost) < MaxLost
    /\ \E plat \in StorePlatforms, crawl_time \in 1..MaxTime :
          /\ \E r \in Range(dramas.rows) :
                r.platform = plat /\ r.crawl_time = crawl_time
          /\ dramas' = without_snapshot(dramas, plat, crawl_time)
          /\ frame' = [frame EXCEPT !.lost = @ \cup
                {[platform |-> plat, crawl_time |-> crawl_time,
                  listed |-> frame.pc # "platforms",
                  read |-> \/ \E i \in DOMAIN frame.platforms :
                                 frame.platforms[i].platform = plat
                           \/ /\ frame.pc \in {"compare", "trends"}
                              /\ Head(frame.todo) = plat]}]
    /\ UNCHANGED <<platform, RANK_SURGE_THRESHOLD,
                   READ_COUNT_SURGE_PCT, COLLECT_SURGE_PCT, call, current,
                   previous, changes, raised, now, analysis, trends, prior,
                   REPORT_MAX_ITEMS, report, exported, crawl_log, run>>

NextRace ==
    \/ ResolveTime
    \/ ListPlatforms
    \/ ReadPreviousTime
    \/ ReadCurrent
    \/ ComparePrevious
    \/ ReadThemeTrends
    \/ SnapshotVanishes

SpecRace == InitRace /\ [][NextRace]_vars

----------------------------------------------------------------------------
(* generate_full_analysis called at different wall-clock times *)

InitClock == InitTrends /\ dramas # EmptyDb /\ now = LastCrawl
             /\ Len(dramas.rows) <= 2 * MaxTrendItems + 1

\* Time passes; the table and the result of the last call stay as they are.
ClockAdvances ==
    /\ \E later \in AnalysisDays : later > now /\ now' = later
    /\ UNCHANGED <<dramas, platform, RANK_SURGE_THRESHOLD,
                   READ_COUNT_SURGE_PCT, COLLECT_SURGE_PCT, call, current,
                   previous, changes, raised, analysis, trends, prior,
                   REPORT_MAX_ITEMS, frame, report, exported, crawl_log, run>>

NextClock == GenerateFullAnalysis \/ ClockAdvances

SpecClock == InitClock /\ [][NextClock]_vars

----------------------------------------------------------------------------
(* report.py and export.py.  A report is held as the items each of its
   sections shows, in the order of their lines; the text of a line is left
   out, and so is the cut of the text at 1950 characters, which the few
   items of these tables never reach. *)

DisplayLimit == 6          \* read_surges[:6], new_entries[:6], drops[:6]
RisingShown == 3           \* rising[:3]
FallingShown == 2          \* falling[:2]
TopShown == 10             \* dramas[:10]
MostCollectedShown == 5    \* by_collects[:5]

\* The Python slice seq[:n], n >= 0.
Take(seq, n) == SubSeq(seq, 1, IF Len(seq) < n THEN Len(seq) ELSE n)

\* item.get(key): None when the key is missing
get(item, key) == IF key \in DOMAIN item THEN item[key] ELSE None

\* The loop of generate_report that sets has_comparison.
has_comparison(a) ==
    \E p \in DOMAIN a.platforms :
        /\ a.platforms[p].previous_time # None
        /\ LET c == a.platforms[p].changes
           IN \/ c.rank_surges # <<>>
              \/ c.rank_drops # <<>>
              \/ c.top_movers_up # <<>>
              \/ c.top_movers_down # <<>>

\* _generate_change_report: the items under each heading of a platform.
change_report(a) ==
    [kind |-> "change",
     platforms |-> [p \in DOMAIN a.platforms |->
        LET c == a.platforms[p].changes
            theme_trends == IF p \in DOMAIN a.theme_trends
                            THEN a.theme_trends[p] ELSE <<>>
        IN [rank_surges |-> Take(c.rank_surges, REPORT_MAX_ITEMS),
            read_surges |-> Take(c.read_surges, DisplayLimit),
            new_entries |-> Take(c.new_entries, DisplayLimit),
            remaining |-> IF Len(c.new_entries) > DisplayLimit
                          THEN Len(c.new_entries) - DisplayLimit ELSE 0,
            rank_drops |-> Take(c.rank_drops, DisplayLimit),
            rising |-> Take(SelectSeq(theme_trends, LAMBDA t : t.change > 0),
                            RisingShown),
            falling |-> Take(SelectSeq(theme_trends, LAMBDA t : t.change < 0),
                             FallingShown),
            stable |-> /\ c.rank_surges = <<>>
                       /\ c.rank_drops = <<>>
                       /\ c.new_entries = <<>>]]]

\* _generate_first_crawl_report: it reads each platform's snapshot again,
\* skips a platform without dramas, and lists the top of the ranking and
\* the most collected dramas.
first_crawl_reports(a) ==
    LET shown == {p \in DOMAIN a.platforms :
                     get_dramas_at(a.crawl_time, p) # {<<>>}}
        overview(ds) ==
            [top |-> Take(ds, TopShown),
             most_collected |->
                Take(list_sort(ds, [i \in DOMAIN ds |-> or0(ds[i].collect_count)],
                               TRUE),
                     MostCollectedShown)]
    IN {[kind |-> "first",
         platforms |-> [p \in shown |-> overview(dramas_of[p])]] :
            dramas_of \in {f \in [shown -> UNION {get_dramas_at(a.crawl_time, p) :
                                                    p \in shown}] :
                             \A p \in shown : f[p] \in get_dramas_at(a.crawl_time, p)}}

\* generate_report(crawl_time): the analyses it can obtain, each with the
\* report it builds from it.
generate_report(arg) ==
    UNION {
        IF a.status = "raised" THEN {[analysis |-> a, report |-> [kind |-> "raised"]]}
        ELSE IF a.status = "absent"
             THEN {[analysis |-> a, report |-> [kind |-> "no data"]]}
        ELSE IF has_comparison(a)
             THEN {[analysis |-> a, report |-> change_report(a)]}
        ELSE {[analysis |-> a, report |-> r] : r \in first_crawl_reports(a)}
        : a \in generate_full_analysis(arg)}

\* One element of changes_clean[change_type].
export_item(item) ==
    [rank |-> get(item, "rank"),
     drama_id |-> get(item, "drama_id"),
     theme |-> item.theme,
     prev_rank |-> get(item, "prev_rank"),
     rank_change |-> get(item, "rank_change"),
     read_change_pct |-> get(item, "read_change_pct"),
     collect_change_pct |-> get(item, "collect_change_pct")]

\* Mutant: the list is built from its end.
export_items_reversed(items) ==
    [i \in DOMAIN items |-> export_item(items[Len(items) + 1 - i])]

\* [{...} for item in items]
export_items(items) == [i \in DOMAIN items |-> export_item(items[i])]

\* One element of current_clean; d.get("theme") or "".
export_current(d) ==
    [rank |-> d.rank, drama_id |-> d.drama_id,
     theme |-> IF d.theme = NoTheme THEN "" ELSE d.theme,
     collect_count |-> d.collect_count, read_count |-> d.read_count]

ExportedTypes ==
    {"new_entries", "rank_surges", "rank_drops", "read_surges",
     "collect_surges", "exits"}

\* export_analysis_data(crawl_time): the analyses it can obtain, each with
\* the export written for it; None when there is no crawl time.
export_analysis_data(arg) ==
    LET crawl_time == IF arg # None THEN arg ELSE get_latest_crawl_time
    IN IF crawl_time = None
       THEN {[analysis |-> NoAnalysis, exported |-> [status |-> "absent"]]}
       ELSE UNION {
        IF a.status = "raised"
        THEN {[analysis |-> a, exported |-> [status |-> "raised"]]}
        ELSE {[analysis |-> a,
               exported |->
                [status |-> "ok", crawl_time |-> crawl_time,
                 theme_trends |-> a.theme_trends,
                 platforms |-> [p \in DOMAIN a.platforms |->
                    [current |-> [i \in DOMAIN cur[p] |-> export_current(cur[p][i])],
                     changes |-> [t \in ExportedTypes |->
                                    export_items(a.platforms[p].changes[t])],
                     previous_crawl_time |-> a.platforms[p].previous_time]]]] :
                cur \in {f \in [DOMAIN a.platforms ->
                               UNION {get_dramas_at(crawl_time, p) :
                                        p \in DOMAIN a.platforms}] :
                           \A p \in DOMAIN a.platforms :
                               f[p] \in get_dramas_at(crawl_time, p)}}
        : a \in generate_full_analysis(crawl_time)}

\* The table after two crawls of a platform, the second of which may be
\* the first that found dramas, with report_max_items set in settings.json.
InitReport ==
    /\ \/ InitScenario
       \/ /\ platform \in ReportPlatforms
          /\ RANK_SURGE_THRESHOLD = 1
          /\ \E first \in crawl(platform), second \in crawl(platform) \ {<<>>} :
                dramas = insert_dramas(insert_dramas(EmptyDb, 1, platform, first),
                                       2, platform, second)
    /\ REPORT_MAX_ITEMS \in 1..MaxDisplay
    /\ READ_COUNT_SURGE_PCT = 50
    /\ COLLECT_SURGE_PCT = 30
    /\ call = NoCall
    /\ current = <<>>
    /\ previous = <<>>
    /\ changes = NoChanges
    /\ raised = FALSE
    /\ now = 2
    /\ analysis = NoAnalysis
    /\ trends = NoTrends
    /\ prior = NoPrior
    /\ frame = NoFrame
    /\ report = NoReport
    /\ exported = NoExport
    /\ crawl_log = <<>>
    /\ run = NoRun

\* generate_report(), once: the analysis it obtained is kept next to the
\* report.
GenerateReport ==
    /\ analysis = NoAnalysis
    /\ \E made \in generate_report(None) :
          /\ analysis' = made.analysis
          /\ report' = made.report
    /\ UNCHANGED <<dramas, platform, RANK_SURGE_THRESHOLD,
                   READ_COUNT_SURGE_PCT, COLLECT_SURGE_PCT, call, current,
                   previous, changes, raised, now, trends, prior,
                   REPORT_MAX_ITEMS, frame, exported, crawl_log, run>>

\* export_analysis_data(), once: the analysis it obtained is kept next to
\* the exported data.
ExportAnalysisData ==
    /\ analysis = NoAnalysis
    /\ \E made \in export_analysis_data(None) :
          /\ analysis' = made.analysis
          /\ exported' = made.exported
    /\ UNCHANGED <<dramas, platform, RANK_SURGE_THRESHOLD,
                   READ_COUNT_SURGE_PCT, COLLECT_SURGE_PCT, call, current,
                   previous, changes, raised, now, trends, prior,
                   REPORT_MAX_ITEMS, frame, report, crawl_log, run>>

NextReport == GenerateReport \/ ExportAnalysisData

SpecReport == InitReport /\ [][NextReport]_vars

----------------------------------------------------------------------------
(* crawler.py, run_full_crawl: one step per platform of the loop *)

\* The keys of CRAWLERS.
CRAWLERS ==
    {"reelshort", "dramabox", "shortmax", "flextv", "goodshort", "topshort",
     "hongguo"}

\* What settings["platforms"] can hold: known platforms and an unknown one.
ConfiguredPlatforms ==
    UNION {[1..n -> {"reelshort", "dramabox", "nosuch"}] : n \in 1..MaxConfigured}

\* What crawler(top_n) can do: return items, return nothing, or raise.
CrawlOutcomes ==
    {[kind |-> "items", items |-> items] : items \in StoreRankings \cup {<<>>}}
    \cup {[kind |-> "raises", items |-> <<>>]}

\* log_crawl: one row of crawl_log
log_crawl(log, crawl_time, plat, count, status, message) ==
    Append(log, [crawl_time |-> crawl_time, platform |-> plat,
                 count |-> count, status |-> status, message |-> message])

\* Mutant: an exception of a crawler ends the loop.
crawl_platform_aborting(s, outcome) ==
    LET plat == s.run.platforms[s.run.idx]
        next == [s.run EXCEPT !.idx = @ + 1]
    IN IF plat \notin CRAWLERS
       THEN [s EXCEPT !.run = [next EXCEPT !.errors = Append(@, plat)]]
       ELSE IF outcome.kind = "raises"
       THEN [s EXCEPT
                !.run = [next EXCEPT !.errors = Append(@, plat),
                                     !.idx = Len(s.run.platforms) + 1],
                !.crawl_log = log_crawl(@, s.run.crawl_time, plat, 0, "error",
                                        "exception")]
       ELSE IF outcome.items # <<>>
       THEN [s EXCEPT
                !.run = [next EXCEPT !.total = @ + Len(outcome.items)],
                !.dramas = insert_dramas(@, s.run.crawl_time, plat, outcome.items),
                !.crawl_log = log_crawl(@, s.run.crawl_time, plat,
                                        Len(outcome.items), "ok", "")]
       ELSE [s EXCEPT
                !.run = [next EXCEPT !.errors = Append(@, plat)],
                !.crawl_log = log_crawl(@, s.run.crawl_time, plat, 0, "error",
                                        "No results")]

\* The body of the loop for the platform at run.idx, on the state
\* s = [run, dramas, crawl_log].
crawl_platform(s, outcome) ==
    LET plat == s.run.platforms[s.run.idx]
        next == [s.run EXCEPT !.idx = @ + 1]
    IN IF plat \notin CRAWLERS
       THEN [s EXCEPT !.run = [next EXCEPT !.errors = Append(@, plat)]]
       ELSE IF outcome.kind = "raises"
       THEN [s EXCEPT
                !.run = [next EXCEPT !.errors = Append(@, plat)],
                !.crawl_log = log_crawl(@, s.run.crawl_time, plat, 0, "error",
                                        "exception")]
       ELSE IF outcome.items # <<>>
       THEN [s EXCEPT
                !.run = [next EXCEPT !.total = @ + Len(outcome.items)],
                !.dramas = insert_dramas(@, s.run.crawl_time, plat, outcome.items),
                !.crawl_log = log_crawl(@, s.run.crawl_time, plat,
                                        Len(outcome.items), "ok", "")]
       ELSE [s EXCEPT
                !.run = [next EXCEPT !.errors = Append(@, plat)],
                !.crawl_log = log_crawl(@, s.run.crawl_time, plat, 0, "error",
                                        "No results")]

\* The locals of run_full_crawl before its loop.
started(crawl_time, platforms) ==
    [pc |-> "crawling", crawl_time |-> crawl_time, platforms |-> platforms,
     idx |-> 1, total |-> 0, errors |-> <<>>]

InitCrawl == InitStore

\* run_full_crawl up to its loop: the settings are loaded and the crawl
\* time is taken from the clock.
StartCrawl ==
    /\ run.pc = "idle"
    /\ \E platforms \in ConfiguredPlatforms :
          run' = started(now, platforms)
    /\ UNCHANGED <<dramas, platform, RANK_SURGE_THRESHOLD,
                   READ_COUNT_SURGE_PCT, COLLECT_SURGE_PCT, call, current,
                   previous, changes, raised, now, analysis, trends, prior,
                   REPORT_MAX_ITEMS, frame, report, exported, crawl_log>>

\* One iteration of the loop over the platforms.
CrawlPlatform ==
    /\ run.pc = "crawling"
    /\ run.idx <= Len(run.platforms)
    /\ \E outcome \in CrawlOutcomes :
          LET s == crawl_platform([run |-> run, dramas |-> dramas,
                                   crawl_log |-> crawl_log], outcome)
          IN /\ run' = s.run
             /\ dramas' = s.dramas
             /\ crawl_log' = s.crawl_log
    /\ UNCHANGED <<platform, RANK_SURGE_THRESHOLD,
                   READ_COUNT_SURGE_PCT, COLLECT_SURGE_PCT, call, current,
                   previous, changes, raised, now, analysis, trends, prior,
                   REPORT_MAX_ITEMS, frame, report, exported>>

\* return crawl_time, total, errors
ReturnCrawl ==
    /\ run.pc = "crawling"
    /\ run.idx > Len(run.platforms)
    /\ run' = [run EXCEPT !.pc = "returned"]
    /\ UNCHANGED <<dramas, platform, RANK_SURGE_THRESHOLD,
                   READ_COUNT_SURGE_PCT, COLLECT_SURGE_PCT, call, current,
                   previous, changes, raised, now, analysis, trends, prior,
                   REPORT_MAX_ITEMS, frame, report, exported, crawl_log>>

NextCrawl == StartCrawl \/ CrawlPlatform \/ ReturnCrawl \/ Tick

SpecCrawl == InitCrawl /\ [][NextCrawl]_vars

----------------------------------------------------------------------------
(* run.py, main: the four steps of one run *)

\* The command-line flags main looks at.
Flags ==
    {"--crawl", "--report", "--notify", "--export-analysis", "--setup",
     "--help"}

\* crawl_only, report_only, notify_only, export_only as main sets them:
\* without any of the four flags, all four steps are selected.
selected(args) ==
    LET none == args \cap {"--crawl", "--report", "--notify",
                           "--export-analysis"} = {}
    IN [crawl_only |-> none \/ "--crawl" \in args,
        report_only |-> none \/ "--report" \in args,
        notify_only |-> none \/ "--notify" \in args,
        export_only |-> none \/ "--export-analysis" \in args]

\* Mutant: a crawl without entries always ends the run.
exits_after_crawl_always(total, report_only, notify_only) == total = 0

\* if total == 0: if not report_only and not notify_only: sys.exit(1)
exits_after_crawl(total, report_only, notify_only) ==
    total = 0 /\ ~report_only /\ ~notify_only

\* run_full_crawl, whole: the loop body for each configured platform, with
\* the outcome of each crawler.
RECURSIVE run_full_crawl(_, _)
run_full_crawl(s, outcomes) ==
    IF s.run.idx > Len(s.run.platforms) THEN s
    ELSE run_full_crawl(crawl_platform(s, outcomes[s.run.idx]), outcomes)

\* The locals of main after the flags are read.
entered(args) ==
    [pc |-> "crawl", args |-> args, flags |-> selected(args),
     crawl_time |-> None, total |-> 0, steps |-> <<>>,
     report_arg |-> None, export_arg |-> None, status |-> "running"]

\* The table before the run: empty, or holding one earlier crawl.
InitRun ==
    /\ \/ dramas = EmptyDb
       \/ \E items \in StoreRankings :
             dramas = insert_dramas(EmptyDb, 1, "dramabox", items)
    /\ platform = "dramabox"
    /\ RANK_SURGE_THRESHOLD = 1
    /\ READ_COUNT_SURGE_PCT = 50
    /\ COLLECT_SURGE_PCT = 30
    /\ call = NoCall
    /\ current = <<>>
    /\ previous = <<>>
    /\ changes = NoChanges
    /\ raised = FALSE
    /\ now = 2
    /\ analysis = NoAnalysis
    /\ trends = NoTrends
    /\ prior = NoPrior
    /\ REPORT_MAX_ITEMS = 10
    /\ frame = NoFrame
    /\ report = NoReport
    /\ exported = NoExport
    /\ crawl_log = <<>>
    /\ run = NoRun

\* main up to Step 1: --setup and --help return before any step.
EnterMain ==
    /\ run.pc = "idle"
    /\ \E args \in SUBSET Flags :
          run' = IF "--setup" \in args \/ "--help" \in args
                 THEN [entered(args) EXCEPT !.pc = "done", !.status = "returned"]
                 ELSE entered(args)
    /\ UNCHANGED <<dramas, platform, RANK_SURGE_THRESHOLD,
                   READ_COUNT_SURGE_PCT, COLLECT_SURGE_PCT, call, current,
                   previous, changes, raised, now, analysis, trends, prior,
                   REPORT_MAX_ITEMS, frame, report, exported, crawl_log>>

\* Step 1: Crawl
StepCrawl ==
    /\ run.pc = "crawl"
    /\ IF run.flags.crawl_only
       THEN \E platforms \in ConfiguredPlatforms :
            \E outcomes \in [DOMAIN platforms -> CrawlOutcomes] :
               LET s == run_full_crawl([run |-> started(now, platforms),
                                        dramas |-> dramas,
                                        crawl_log |-> crawl_log], outcomes)
                   crawled == [run EXCEPT !.crawl_time = s.run.crawl_time,
                                          !.total = s.run.total,
                                          !.steps = Append(@, "crawl")]
               IN /\ dramas' = s.dramas
                  /\ crawl_log' = s.crawl_log
                  /\ run' = IF exits_after_crawl(s.run.total,
                                                 run.flags.report_only,
                                                 run.flags.notify_only)
                            THEN [crawled EXCEPT !.pc = "done",
                                                 !.status = "exit 1"]
                            ELSE [crawled EXCEPT !.pc = "report"]
       ELSE /\ run' = [run EXCEPT !.pc = "report"]
            /\ UNCHANGED <<dramas, crawl_log>>
    /\ UNCHANGED <<platform, RANK_SURGE_THRESHOLD,
                   READ_COUNT_SURGE_PCT, COLLECT_SURGE_PCT, call, current,
                   previous, changes, raised, now, analysis, trends, prior,
                   REPORT_MAX_ITEMS, frame, report, exported>>

\* Step 2: Generate report; an exception of generate_report ends the run.
StepReport ==
    /\ run.pc = "report"
    /\ IF run.flags.report_only \/ run.flags.notify_only
       THEN \E made \in generate_report(run.crawl_time) :
               /\ analysis' = made.analysis
               /\ report' = made.report
               /\ run' = IF made.report.kind = "raised"
                         THEN [run EXCEPT !.pc = "done", !.status = "raised",
                                          !.report_arg = run.crawl_time,
                                          !.steps = Append(@, "report")]
                         ELSE [run EXCEPT !.pc = "export",
                                          !.report_arg = run.crawl_time,
                                          !.steps = Append(@, "report")]
       ELSE /\ run' = [run EXCEPT !.pc = "export"]
            /\ UNCHANGED <<analysis, report>>
    /\ UNCHANGED <<dramas, platform, RANK_SURGE_THRESHOLD,
                   READ_COUNT_SURGE_PCT, COLLECT_SURGE_PCT, call, current,
                   previous, changes, raised, now, trends, prior,
                   REPORT_MAX_ITEMS, frame, exported, crawl_log>>

\* Step 3: Export analysis data
StepExport ==
    /\ run.pc = "export"
    /\ IF run.flags.export_only
       THEN \E made \in export_analysis_data(run.crawl_time) :
               /\ analysis' = made.analysis
               /\ exported' = made.exported
               /\ run' = IF made.exported.status = "raised"
                         THEN [run EXCEPT !.pc = "done", !.status = "raised",
                                          !.export_arg = run.crawl_time,
                                          !.steps = Append(@, "export")]
                         ELSE [run EXCEPT !.pc = "notify",
                                          !.export_arg = run.crawl_time,
                                          !.steps = Append(@, "export")]
       ELSE /\ run' = [run EXCEPT !.pc = "notify"]
            /\ UNCHANGED <<analysis, exported>>
    /\ UNCHANGED <<dramas, platform, RANK_SURGE_THRESHOLD,
                   READ_COUNT_SURGE_PCT, COLLECT_SURGE_PCT, call, current,
                   previous, changes, raised, now, trends, prior,
                   REPORT_MAX_ITEMS, frame, report, crawl_log>>

\* Step 4: Send notifications, when notify was selected and report is not
\* None; then main returns.
StepNotify ==
    /\ run.pc = "notify"
    /\ run' = IF run.flags.notify_only /\ report # NoReport
              THEN [run EXCEPT !.pc = "done", !.status = "returned",
                               !.steps = Append(@, "notify")]
              ELSE [run EXCEPT !.pc = "done", !.status = "returned"]
    /\ UNCHANGED <<dramas, platform, RANK_SURGE_THRESHOLD,
                   READ_COUNT_SURGE_PCT, COLLECT_SURGE_PCT, call, current,
                   previous, changes, raised, now, analysis, trends, prior,
                   REPORT_MAX_ITEMS, frame, report, exported, crawl_log>>

\* The clock moves while the run goes on.
NextRun ==
    EnterMain \/ StepCrawl \/ StepReport \/ StepExport \/ StepNotify \/ Tick

SpecRun == InitRun /\ [][NextRun]_vars

----------------------------------------------------------------------------
(* Properties of the change detector *)

analyzed == call.current_time # None

returned == analyzed /\ ~raised

Item(r) == [drama_id |-> r.drama_id, theme |-> r.theme, rank |-> r.rank,
            read_count |-> r.read_count, collect_count |-> r.collect_count]

Items(rows) == Map(rows, Item)

IdsOf(list) == Map(list, LAMBDA x: x.drama_id)

IdSet(list) == {list[i].drama_id : i \in DOMAIN list}

Occurrences(list, did) == Cardinality({i \in DOMAIN list : list[i].drama_id = did})

PrevOf(did) == CHOOSE r \in Range(previous) : r.drama_id = did

\* the current items that are in the previous snapshot too
Common == {d \in Range(current) : d.drama_id \in IdSet(previous)}

RankDiffOf(d) == PrevOf(d.drama_id).rank - d.rank

RankDeltas(list) ==
    Map(list, LAMBDA x: <<x.drama_id, x.prev_rank, x.rank, x.rank_change>>)

InScenario ==
    /\ returned
    /\ RANK_SURGE_THRESHOLD = 2
    /\ READ_COUNT_SURGE_PCT = 50
    /\ Items(previous) = ScenarioPrevious
    /\ Items(current) = ScenarioCurrent

ScenarioCommonPart ==
    /\ IdsOf(changes.exits) = <<"C">>
    /\ Map(changes.new_entries, LAMBDA x: <<x.drama_id, x.rank>>) = << <<"D", 2>> >>
    /\ RankDeltas(changes.top_movers_up) = << <<"B", 2, 1, 1>> >>
    /\ RankDeltas(changes.top_movers_down) = << <<"A", 1, 3, -2>> >>
    /\ Map(changes.read_surges,
           LAMBDA x: <<x.drama_id, x.prev_read_count, x.read_change_pct>>)
         = << <<"B", 100, 600>> >>

\* C1 as stated: in the scenario (thresholds 2 and 50) exits=[C],
\* new_entries=[D at 2], top_movers_up=[B +1], top_movers_down=[A -2],
\* read_surges=[B +60%] and rank_drops is empty.
C1_ScenarioAsStated ==
    InScenario => ScenarioCommonPart /\ changes.rank_drops = <<>>

\* C1 amended: the same scenario yields exits=[C], new_entries=[D at 2],
\* top_movers_up=[B +1], top_movers_down=[A -2], read_surges=[B +60%], and
\* rank_drops=[A with rank_change -2], since -2 <= -surge_threshold;
\* rank_surges and collect_surges are empty.
C1_Scenario ==
    InScenario =>
        /\ ScenarioCommonPart
        /\ RankDeltas(changes.rank_drops) = << <<"A", 1, 3, -2>> >>
        /\ changes.rank_surges = <<>>
        /\ changes.collect_surges = <<>>

C1_Witness == InScenario

AscendingByRank(list) ==
    \A i, j \in DOMAIN list : i < j => list[i].rank < list[j].rank

\* C2: with no previous snapshot (previous_time is None) new_entries is the
\* whole current snapshot in ascending rank order and the seven other
\* sequences are empty.
C2_FirstSnapshot ==
    (analyzed /\ call.previous_time = None) =>
        /\ ~raised
        /\ changes.new_entries = current
        /\ AscendingByRank(changes.new_entries)
        /\ changes.exits = <<>>
        /\ changes.rank_surges = <<>> /\ changes.rank_drops = <<>>
        /\ changes.read_surges = <<>> /\ changes.collect_surges = <<>>
        /\ changes.top_movers_up = <<>> /\ changes.top_movers_down = <<>>

C2_Witness ==
    /\ returned /\ call.previous_time = None
    /\ Len(current) = MaxItems
    /\ Len(changes.new_entries) = MaxItems

SameSnapshot == Items(current) = Items(previous)

\* C3: a snapshot compared with a snapshot of the same items, ranks and
\* counts gives eight empty sequences, for every configured threshold.
C3_SelfCompare ==
    (analyzed /\ call.previous_time # None /\ SameSnapshot) =>
        /\ ~raised
        /\ changes = NoChanges

C3_Witness ==
    /\ returned /\ call.previous_time # None /\ SameSnapshot
    /\ Len(current) = MaxMetricItems
    /\ \A i \in DOMAIN current :
          current[i].read_count > 0 /\ current[i].collect_count > 0
    /\ changes = NoChanges

\* C4: an item of both snapshots is in rank_surges iff previous rank minus
\* current rank >= surge threshold, in rank_drops iff it is <= -threshold;
\* an item of only one snapshot is in neither (the threshold is positive).
C4_SurgeDropMembership ==
    returned =>
        /\ \A d \in Common :
              /\ d.drama_id \in IdSet(changes.rank_surges)
                    <=> RankDiffOf(d) >= RANK_SURGE_THRESHOLD
              /\ d.drama_id \in IdSet(changes.rank_drops)
                    <=> RankDiffOf(d) <= -RANK_SURGE_THRESHOLD
        /\ IdSet(changes.rank_surges) \cup IdSet(changes.rank_drops)
              \subseteq IdSet(current) \cap IdSet(previous)

C4_Witness ==
    /\ returned
    /\ \E d \in Common : RankDiffOf(d) = RANK_SURGE_THRESHOLD
                         /\ d.drama_id \in IdSet(changes.rank_surges)
    /\ \E d \in Common : RankDiffOf(d) = -RANK_SURGE_THRESHOLD
                         /\ d.drama_id \in IdSet(changes.rank_drops)
    /\ \E d \in Common : RankDiffOf(d) = 1 - RANK_SURGE_THRESHOLD
    /\ IdSet(current) \ IdSet(previous) # {}

\* C5: an item of both snapshots whose rank changed is exactly once in
\* top_movers_up (moved up) or exactly once in top_movers_down (moved down)
\* and not in the other; an item of unchanged rank is in neither; the surge
\* threshold plays no part.
C5_MoversPartition ==
    returned =>
        \A d \in Common :
            LET up == Occurrences(changes.top_movers_up, d.drama_id)
                down == Occurrences(changes.top_movers_down, d.drama_id)
            IN /\ RankDiffOf(d) > 0 => up = 1 /\ down = 0
               /\ RankDiffOf(d) < 0 => up = 0 /\ down = 1
               /\ RankDiffOf(d) = 0 => up = 0 /\ down = 0

C5_Witness ==
    /\ returned
    /\ RANK_SURGE_THRESHOLD = MaxThreshold
    /\ \E d \in Common : RankDiffOf(d) = 1
                         /\ Occurrences(changes.top_movers_up, d.drama_id) = 1
    /\ \E d \in Common : RankDiffOf(d) = -1
                         /\ Occurrences(changes.top_movers_down, d.drama_id) = 1
    /\ \E d \in Common : RankDiffOf(d) = 0

\* growth from prev_count to curr_count is at least pct percent
GrewBy(prev_count, curr_count, pct) ==
    /\ prev_count > 0
    /\ curr_count # None
    /\ (curr_count - prev_count) * 100 >= pct * prev_count

\* C6: an item of both snapshots is in read_surges iff its previous read
\* count is > 0 and (current - previous) / previous * 100 >= the read
\* threshold; collect_surges follows the same rule with the collect counts
\* and the collect threshold, independently of read_surges.
C6_CountSurgeMembership ==
    returned =>
        \A d \in Common :
            LET p == PrevOf(d.drama_id)
            IN /\ d.drama_id \in IdSet(changes.read_surges)
                    <=> GrewBy(p.read_count, d.read_count, READ_COUNT_SURGE_PCT)
               /\ d.drama_id \in IdSet(changes.collect_surges)
                    <=> GrewBy(p.collect_count, d.collect_count, COLLECT_SURGE_PCT)

C6_Witness ==
    /\ returned
    /\ IdSet(changes.read_surges) \cap IdSet(changes.collect_surges) # {}
    /\ IdSet(changes.collect_surges) \ IdSet(changes.read_surges) # {}
    /\ \E d \in Common :
          /\ d.drama_id \in IdSet(changes.collect_surges)
          /\ (d.collect_count - PrevOf(d.drama_id).collect_count) * 100
                = COLLECT_SURGE_PCT * PrevOf(d.drama_id).collect_count

C6_WitnessReadOnly ==
    /\ returned
    /\ IdSet(changes.read_surges) \ IdSet(changes.collect_surges) # {}
    /\ \E d \in Common :
          /\ d.drama_id \in IdSet(changes.read_surges)
          /\ (d.read_count - PrevOf(d.drama_id).read_count) * 100
                = READ_COUNT_SURGE_PCT * PrevOf(d.drama_id).read_count

\* C7: an item whose previous read (collect) count is 0 or missing is never
\* in read_surges (collect_surges), whatever its current count, and the
\* analysis returns instead of raising.
C7_ZeroOrMissingPrevious ==
    analyzed =>
        /\ ~raised
        /\ \A d \in Common :
              LET p == PrevOf(d.drama_id)
              IN /\ p.read_count \in {0, None}
                      => d.drama_id \notin IdSet(changes.read_surges)
                 /\ p.collect_count \in {0, None}
                      => d.drama_id \notin IdSet(changes.collect_surges)

C7_Witness ==
    /\ returned
    /\ \E d \in Common : PrevOf(d.drama_id).read_count = 0 /\ d.read_count > 0
    /\ \E d \in Common : PrevOf(d.drama_id).read_count = None /\ d.read_count > 0
    /\ \E d \in Common : PrevOf(d.drama_id).collect_count = None
    /\ changes.read_surges = <<>>

C7_WitnessCollect ==
    /\ returned
    /\ \E d \in Common : PrevOf(d.drama_id).collect_count = 0 /\ d.collect_count > 0
    /\ \E d \in Common : PrevOf(d.drama_id).collect_count > 0 /\ d.collect_count = 0
    /\ changes.collect_surges = <<>>

NoDuplicates(list) ==
    \A i, j \in DOMAIN list : i # j => list[i].drama_id # list[j].drama_id

\* C8: new_entries holds exactly the current items whose id is not in the
\* previous snapshot, exits exactly the previous items whose id is not in
\* the current one; an exit is the previous row itself, without prev_rank,
\* rank_change or percent fields.
C8_NewEntriesAndExits ==
    returned =>
        /\ Range(changes.new_entries)
              = {d \in Range(current) : d.drama_id \notin IdSet(previous)}
        /\ NoDuplicates(changes.new_entries)
        /\ Range(changes.exits)
              = {r \in Range(previous) : r.drama_id \notin IdSet(current)}
        /\ NoDuplicates(changes.exits)
        /\ \A i \in DOMAIN changes.exits : DOMAIN changes.exits[i] = Columns

C8_Witness ==
    /\ returned
    /\ Len(changes.new_entries) = 1
    /\ Len(changes.exits) = 2
    /\ Common # {}

NonIncreasing(keys) == \A i, j \in DOMAIN keys : i < j => keys[i] >= keys[j]

NonDecreasing(keys) == \A i, j \in DOMAIN keys : i < j => keys[i] <= keys[j]

RankChanges(list) == Map(list, LAMBDA x: x.rank_change)

\* C9: rank_surges and top_movers_up are non-increasing by rank_change,
\* rank_drops and top_movers_down non-decreasing by rank_change, read_surges
\* and collect_surges non-increasing by percent change, new_entries
\* ascending by rank.
C9_Sorted ==
    returned =>
        /\ NonIncreasing(RankChanges(changes.rank_surges))
        /\ NonIncreasing(RankChanges(changes.top_movers_up))
        /\ NonDecreasing(RankChanges(changes.rank_drops))
        /\ NonDecreasing(RankChanges(changes.top_movers_down))
        /\ NonIncreasing(Map(changes.read_surges, LAMBDA x: x.read_change_pct))
        /\ NonIncreasing(Map(changes.collect_surges,
                             LAMBDA x: x.collect_change_pct))
        /\ AscendingByRank(changes.new_entries)

\* the sort had to move an element: the larger change is at the lower rank
C9_Witness ==
    /\ returned
    /\ Len(changes.top_movers_up) = 2
    /\ changes.top_movers_up[1].rank_change > changes.top_movers_up[2].rank_change
    /\ changes.top_movers_up[1].rank > changes.top_movers_up[2].rank
    /\ Len(changes.rank_surges) = 2
    /\ changes.rank_surges[1].rank > changes.rank_surges[2].rank

C9_WitnessPercent ==
    /\ returned
    /\ Len(changes.collect_surges) = 2
    /\ changes.collect_surges[1].collect_change_pct
          > changes.collect_surges[2].collect_change_pct
    /\ changes.collect_surges[1].rank > changes.collect_surges[2].rank

TiesInRankOrder(list, keys) ==
    \A i, j \in DOMAIN list :
        (i < j /\ keys[i] = keys[j]) => list[i].rank < list[j].rank

\* C10: in every sorted sequence two elements of equal sort key stay in the
\* order of the iteration over the current snapshot, ascending current rank.
C10_StableTies ==
    returned =>
        /\ TiesInRankOrder(changes.rank_surges, RankChanges(changes.rank_surges))
        /\ TiesInRankOrder(changes.rank_drops, RankChanges(changes.rank_drops))
        /\ TiesInRankOrder(changes.top_movers_up,
                           RankChanges(changes.top_movers_up))
        /\ TiesInRankOrder(changes.top_movers_down,
                           RankChanges(changes.top_movers_down))
        /\ TiesInRankOrder(changes.read_surges,
                           Map(changes.read_surges, LAMBDA x: x.read_change_pct))
        /\ TiesInRankOrder(changes.collect_surges,
                           Map(changes.collect_surges,
                               LAMBDA x: x.collect_change_pct))
        /\ TiesInRankOrder(changes.new_entries,
                           Map(changes.new_entries, LAMBDA x: x.rank))

C10_Witness ==
    /\ returned
    /\ Len(changes.top_movers_up) = 3
    /\ changes.top_movers_up[1].rank_change = changes.top_movers_up[2].rank_change
    /\ changes.top_movers_up[2].rank_change = changes.top_movers_up[3].rank_change
    /\ changes.top_movers_up[1].rank < changes.top_movers_up[2].rank

C10_WitnessPercent ==
    /\ returned
    /\ Len(changes.read_surges) = 2
    /\ changes.read_surges[1].read_change_pct = changes.read_surges[2].read_change_pct

reconfigured == prior.threshold # None /\ returned

\* C11: for the same two snapshots, the items in rank_surges (rank_drops)
\* under a threshold are among the items in rank_surges (rank_drops) under
\* every smaller threshold.
C11_ThresholdMonotonic ==
    reconfigured =>
        /\ prior.threshold <= RANK_SURGE_THRESHOLD =>
              /\ IdSet(changes.rank_surges) \subseteq IdSet(prior.changes.rank_surges)
              /\ IdSet(changes.rank_drops) \subseteq IdSet(prior.changes.rank_drops)
        /\ RANK_SURGE_THRESHOLD <= prior.threshold =>
              /\ IdSet(prior.changes.rank_surges) \subseteq IdSet(changes.rank_surges)
              /\ IdSet(prior.changes.rank_drops) \subseteq IdSet(changes.rank_drops)

\* raising the threshold removed a surge and a drop and kept others
C11_Witness ==
    /\ reconfigured
    /\ prior.threshold < RANK_SURGE_THRESHOLD
    /\ changes.rank_surges # <<>>
    /\ changes.rank_drops # <<>>
    /\ IdSet(changes.rank_surges) # IdSet(prior.changes.rank_surges)
    /\ IdSet(changes.rank_drops) # IdSet(prior.changes.rank_drops)

----------------------------------------------------------------------------
(* Properties of the snapshot table *)

StoredPairs == {<<r.platform, r.crawl_time>> : r \in Range(dramas.rows)}

\* What the table db holds for one (platform, crawl_time) pair.
Snapshot(db, plat, crawl_time) ==
    {Item(r) : r \in {x \in Range(db.rows) :
                        x.platform = plat /\ x.crawl_time = crawl_time}}

\* Unique ids, and ranks that are a permutation of 1..N.
WellFormed(items) ==
    /\ \A x, y \in items : x.drama_id = y.drama_id => x = y
    /\ \A x, y \in items : x.rank = y.rank => x = y
    /\ {x.rank : x \in items} = 1..Cardinality(items)

\* C12: a snapshot with a duplicated id, or with duplicated or non-dense
\* ranks, is never analysed into a change set: whenever the analysis
\* returned, both snapshots of every analysed platform were well formed.
C12_MalformedRejected ==
    analysis.status = "ok" =>
        \A p \in DOMAIN analysis.platforms :
            /\ WellFormed(Snapshot(dramas, p, analysis.crawl_time))
            /\ analysis.platforms[p].previous_time # None =>
                  WellFormed(Snapshot(dramas, p,
                                      analysis.platforms[p].previous_time))

\* C13: every stored (platform, crawl_time) snapshot has unique ids and
\* ranks that are exactly a permutation of 1..N.
C13_SnapshotsWellFormed ==
    \A pair \in StoredPairs : WellFormed(Snapshot(dramas, pair[1], pair[2]))

\* C14: no step changes what the table holds for a pair it already stores.
C14_SnapshotImmutable ==
    [][\A pair \in StoredPairs :
          Snapshot(dramas', pair[1], pair[2]) = Snapshot(dramas, pair[1], pair[2])]_vars

CrawlTimes == {r.crawl_time : r \in Range(dramas.rows)}

TimesOf(plat) == {r.crawl_time : r \in {x \in Range(dramas.rows) : x.platform = plat}}

\* C19: generate_full_analysis called without a time resolves to the most
\* recent snapshot time over all sources, and returns the absent result
\* exactly when the table holds no snapshot; it does not raise then.
C19_LatestOrAbsent ==
    (analysis.status # "none" /\ analysis.arg = None) =>
        /\ analysis.status = "absent" <=> dramas.rows = <<>>
        /\ analysis.status = "ok" =>
              /\ analysis.crawl_time \in CrawlTimes
              /\ \A t \in CrawlTimes : t <= analysis.crawl_time

\* Resolved to a time at which one source was crawled last although another
\* source's latest snapshot is older.
C19_Witness ==
    /\ analysis.status = "ok"
    /\ analysis.arg = None
    /\ \E p \in StorePlatforms :
          /\ TimesOf(p) # {}
          /\ \A t \in TimesOf(p) : t < analysis.crawl_time

C19_WitnessAbsent == analysis.status = "absent" /\ dramas.rows = <<>>

\* C20: the result has an entry for exactly the sources with a snapshot at
\* the resolved time, and each entry's previous_time is that source's own
\* greatest snapshot time strictly earlier, None if there is none.
C20_EntriesAndPreviousTimes ==
    analysis.status = "ok" =>
        /\ DOMAIN analysis.platforms =
              {p \in StorePlatforms : analysis.crawl_time \in TimesOf(p)}
        /\ \A p \in DOMAIN analysis.platforms :
              LET own == {t \in TimesOf(p) : t < analysis.crawl_time}
                  previous_time == analysis.platforms[p].previous_time
              IN IF own = {} THEN previous_time = None
                 ELSE previous_time \in own /\ \A t \in own : t <= previous_time

\* Two sources at the resolved time: one has an earlier snapshot of its own,
\* the other has none although the table holds an earlier time.
C20_Witness ==
    /\ analysis.status = "ok"
    /\ \E p, q \in DOMAIN analysis.platforms :
          /\ analysis.platforms[p].previous_time # None
          /\ analysis.platforms[q].previous_time = None
          /\ \E t \in CrawlTimes : t < analysis.crawl_time

----------------------------------------------------------------------------
(* Properties of the theme trends *)

trended == trends.platform # ""

RowsAt(plat, crawl_time) ==
    {r \in Range(dramas.rows) : r.platform = plat /\ r.crawl_time = crawl_time}

\* The tags of a snapshot that are neither missing nor empty.
TagsAt(plat, crawl_time) ==
    {r.theme : r \in RowsAt(plat, crawl_time)} \ {NoTheme, ""}

Tagged(plat, crawl_time, theme) ==
    {r \in RowsAt(plat, crawl_time) : r.theme = theme}

RECURSIVE RankSum(_)
RankSum(rows) ==
    IF rows = {} THEN 0
    ELSE LET r == CHOOSE x \in rows : TRUE IN r.rank + RankSum(rows \ {r})

\* The snapshot times of any source inside the trailing window.
WindowTimes == {t \in CrawlTimes : t >= now - TrendDays}

Earliest(times) == CHOOSE t \in times : \A u \in times : t <= u

Latest(times) == CHOOSE t \in times : \A u \in times : u <= t

\* result holds one record per tag of the two endpoint snapshots of plat,
\* with the counts of both, their difference, and the latest average rank.
TrendsBetween(result, plat, earliest, latest) ==
    LET tags == TagsAt(plat, earliest) \cup TagsAt(plat, latest)
    IN /\ {result[i].theme : i \in DOMAIN result} = tags
       /\ Len(result) = Cardinality(tags)
       /\ \A i \in DOMAIN result :
            LET now_rows == Tagged(plat, latest, result[i].theme)
                then_rows == Tagged(plat, earliest, result[i].theme)
            IN /\ result[i].current_count = Cardinality(now_rows)
               /\ result[i].previous_count = Cardinality(then_rows)
               /\ result[i].change =
                     Cardinality(now_rows) - Cardinality(then_rows)
               /\ result[i].avg_rank =
                     IF now_rows = {} THEN NoAverage
                     ELSE <<RankSum(now_rows), Cardinality(now_rows)>>

InTrendScenario ==
    /\ trended
    /\ Cardinality(WindowTimes) = 2
    /\ Items(SelectSeq(dramas.rows, LAMBDA r : r.crawl_time = Earliest(WindowTimes)))
          = ScenarioEarliest
    /\ Items(SelectSeq(dramas.rows, LAMBDA r : r.crawl_time = Latest(WindowTimes)))
          = ScenarioLatest

\* C15: analyze_theme_trends returns exactly one record per non-empty tag
\* of the earliest or the latest endpoint aggregate, its change is the latest
\* count minus the earliest count (a missing side counts 0), its avg_rank
\* comes from the latest side only; 5 romance against 8 romance and
\* 2 fantasy gives romance +3 and fantasy +2.
C15_TrendRecords ==
    (trended /\ Cardinality(WindowTimes) >= 2) =>
        /\ TrendsBetween(trends.result, trends.platform,
                         Earliest(WindowTimes), Latest(WindowTimes))
        /\ InTrendScenario =>
              trends.result =
                << [theme |-> "romance", current_count |-> 8,
                    previous_count |-> 5, change |-> 3, avg_rank |-> <<36, 8>>],
                   [theme |-> "fantasy", current_count |-> 2,
                    previous_count |-> 0, change |-> 2, avg_rank |-> <<19, 2>>] >>

C15_Witness == InTrendScenario /\ Len(trends.result) = 2

\* A tag of one side only, next to an empty and a missing tag.
C15_WitnessEmptyTag ==
    /\ trended
    /\ Cardinality(WindowTimes) >= 2
    /\ \E i \in DOMAIN trends.result : trends.result[i].previous_count = 0
    /\ \E i \in DOMAIN trends.result : trends.result[i].current_count = 0
    /\ \E r \in RowsAt(trends.platform, Latest(WindowTimes)) : r.theme = ""
    /\ \E r \in RowsAt(trends.platform, Earliest(WindowTimes)) : r.theme = NoTheme

\* C16: fewer than two distinct snapshot times in the window give the empty
\* sequence.
C16_ShortWindowEmpty ==
    (trended /\ Cardinality(WindowTimes) < 2) => trends.result = <<>>

\* One time in the window, whose snapshot carries a tag, and an older
\* snapshot outside the window.
C16_Witness ==
    /\ trended
    /\ Cardinality(WindowTimes) = 1
    /\ TagsAt(trends.platform, Latest(WindowTimes)) # {}
    /\ \E t \in CrawlTimes : t < now - TrendDays

C16_WitnessNoTime == trended /\ WindowTimes = {}

\* C17: the endpoints compared for a source are the earliest and the latest
\* snapshot time of that source inside the window; a source with fewer than
\* two snapshot times of its own in the window gets empty trends.
C17_OwnEndpoints ==
    trended =>
        LET own == WindowTimes \cap TimesOf(trends.platform)
        IN IF Cardinality(own) < 2 THEN trends.result = <<>>
           ELSE TrendsBetween(trends.result, trends.platform,
                              Earliest(own), Latest(own))

\* C18: the result is sorted non-increasing by signed change.
C18_SortedByChange ==
    trended =>
        NonIncreasing([i \in DOMAIN trends.result |-> trends.result[i].change])

\* A rising tag and a falling tag.
C18_Witness ==
    /\ trended
    /\ \E i, j \in DOMAIN trends.result :
          /\ trends.result[i].change > 0
          /\ trends.result[j].change < 0

----------------------------------------------------------------------------
(* Properties of one analysis cycle *)

\* The orders, ascending by rank, in which a set of rows can be listed.
RankOrders(rows) ==
    {s \in [1..Cardinality(rows) -> rows] :
        /\ \A i, j \in DOMAIN s : i # j => s[i] # s[j]
        /\ \A i, j \in DOMAIN s : i < j => s[i].rank <= s[j].rank}

\* The snapshot times of plat itself that are earlier than crawl_time.
OwnEarlier(plat, crawl_time) == {t \in TimesOf(plat) : t < crawl_time}

\* C21: in one cycle a source with no earlier snapshot gets all its current
\* items as new_entries and nothing else, the cycle completes, and every
\* other source gets the change set of its own two snapshots, whatever the
\* other sources hold.
C21_NoHistoryIsolated ==
    /\ analysis.status # "raised"
    /\ analysis.status = "ok" =>
        \A p \in DOMAIN analysis.platforms :
            LET entry == analysis.platforms[p].changes
                own == OwnEarlier(p, analysis.crawl_time)
            IN IF own = {}
               THEN \E listed \in RankOrders(RowsAt(p, analysis.crawl_time)) :
                        entry = [NoChanges EXCEPT !.new_entries = listed]
               ELSE \E cur \in RankOrders(RowsAt(p, analysis.crawl_time)),
                       prev_rows \in RankOrders(RowsAt(p, Latest(own))) :
                        entry = analyze_platform_changes(cur, prev_rows)

\* One source without history next to a source whose ranking changed.
C21_Witness ==
    /\ analysis.status = "ok"
    /\ \E p, q \in DOMAIN analysis.platforms :
          /\ analysis.platforms[p].previous_time = None
          /\ analysis.platforms[p].changes.new_entries # <<>>
          /\ analysis.platforms[q].previous_time # None
          /\ analysis.platforms[q].changes.exits # <<>>
          /\ analysis.platforms[q].changes.top_movers_up # <<>>

\* C22: a failure while one source is processed does not abort the cycle:
\* generate_full_analysis still returns, with the results of the other
\* sources.
C22_FailureIsolated ==
    /\ analysis.status # "raised"
    /\ analysis.status = "ok" =>
          \A p \in StorePlatforms :
              analysis.crawl_time \in TimesOf(p) =>
                  p \in DOMAIN analysis.platforms

\* The snapshots of the resolved time that went before the call read them.
LostUnread ==
    {l \in frame.lost : l.crawl_time = frame.crawl_time /\ ~l.read}

C23_WitnessUnlisted ==
    /\ frame.pc = "done"
    /\ \E l \in LostUnread : ~l.listed

\* C24: two generate_full_analysis calls with the same time argument, the
\* same table and the same thresholds return the same changes and the same
\* theme trends (as sets of records: ties are unordered), whatever the
\* wall-clock time of each call.
C24_ClockIndependent ==
    [][(/\ analysis.status = "ok"
        /\ analysis'.status = "ok"
        /\ analysis'.arg = analysis.arg
        /\ dramas' = dramas
        /\ RANK_SURGE_THRESHOLD' = RANK_SURGE_THRESHOLD
        /\ READ_COUNT_SURGE_PCT' = READ_COUNT_SURGE_PCT
        /\ COLLECT_SURGE_PCT' = COLLECT_SURGE_PCT)
       => /\ analysis'.platforms = analysis.platforms
          /\ \A p \in DOMAIN analysis.theme_trends :
                Range(analysis'.theme_trends[p]) = Range(analysis.theme_trends[p])]_vars

----------------------------------------------------------------------------
(* Properties of the export and of the report *)

\* C25: for every exported change type the exported list has the length of
\* the detector's sequence and lists the same ids in the same order; the
\* analysis itself is still a result of the detector.
C25_ExportKeepsOrder ==
    exported.status = "ok" =>
        /\ analysis \in generate_full_analysis(exported.crawl_time)
        /\ DOMAIN exported.platforms = DOMAIN analysis.platforms
        /\ \A p \in DOMAIN exported.platforms :
            \A t \in ExportedTypes :
                LET out == exported.platforms[p].changes[t]
                    found == analysis.platforms[p].changes[t]
                IN /\ Len(out) = Len(found)
                   /\ \A i \in DOMAIN out : out[i].drama_id = found[i].drama_id

\* An export with two lists of two or more items.
C25_Witness ==
    /\ exported.status = "ok"
    /\ \E p \in DOMAIN exported.platforms :
          /\ Len(exported.platforms[p].changes["new_entries"]) >= 2
          /\ Len(exported.platforms[p].changes["exits"]) >= 2

C25_WitnessSurges ==
    /\ exported.status = "ok"
    /\ \E p \in DOMAIN exported.platforms :
          /\ Len(exported.platforms[p].changes["rank_drops"]) >= 2
          /\ exported.platforms[p].changes["rank_surges"] # <<>>

\* The headings of the change report under which items are listed.
Displayed == {"rank_surges", "read_surges", "new_entries", "rank_drops"}

\* C26: under every heading the change report lists exactly the first
\* min(length, REPORT_MAX_ITEMS) items of the detector's sequence, in order.
C26_TruncatedToConfigured ==
    report.kind = "change" =>
        \A p \in DOMAIN report.platforms :
            \A t \in Displayed :
                report.platforms[p][t] =
                    Take(analysis.platforms[p].changes[t], REPORT_MAX_ITEMS)

\* C27: the first-crawl overview is the report only when no source of the
\* analysis has a previous snapshot; with a previous_time for some source
\* the change report is.
C27_FirstCrawlOnlyWithoutHistory ==
    /\ report.kind = "first" =>
          \A p \in DOMAIN analysis.platforms :
              analysis.platforms[p].previous_time = None
    /\ (/\ report.kind \in {"first", "change"}
        /\ \E p \in DOMAIN analysis.platforms :
              analysis.platforms[p].previous_time # None)
          => report.kind = "change"

----------------------------------------------------------------------------
(* Properties of the overlapping views *)

\* Every item of part is in whole, with the same prev_rank and rank_change.
AmongMovers(part, whole) ==
    \A i \in DOMAIN part : \E j \in DOMAIN whole :
        /\ whole[j].drama_id = part[i].drama_id
        /\ whole[j].prev_rank = part[i].prev_rank
        /\ whole[j].rank_change = part[i].rank_change

\* C28: with a positive surge threshold every rank surge is also a mover
\* up, with the same prev_rank and rank_change, every rank drop is also a
\* mover down, and no id is both a surge and a drop, nor both a mover up and
\* a mover down.
C28_SurgesAmongMovers ==
    (returned /\ RANK_SURGE_THRESHOLD > 0) =>
        /\ AmongMovers(changes.rank_surges, changes.top_movers_up)
        /\ AmongMovers(changes.rank_drops, changes.top_movers_down)
        /\ IdSet(changes.rank_surges) \cap IdSet(changes.rank_drops) = {}
        /\ IdSet(changes.top_movers_up) \cap IdSet(changes.top_movers_down) = {}

\* A surge, a drop, and a mover that is neither.
C28_Witness ==
    /\ returned
    /\ changes.rank_surges # <<>>
    /\ changes.rank_drops # <<>>
    /\ \/ Len(changes.top_movers_up) > Len(changes.rank_surges)
       \/ Len(changes.top_movers_down) > Len(changes.rank_drops)

----------------------------------------------------------------------------
(* Properties of the crawl loop and of the main entry point *)

RECURSIVE CountSum(_)
CountSum(log) == IF log = <<>> THEN 0 ELSE Head(log).count + CountSum(Tail(log))

\* C29: run_full_crawl handles every configured platform once, in order,
\* under one crawl_time: each crawler that raised or returned nothing has an
\* 'error' entry of count 0 and the platforms after it are still handled,
\* rows are inserted only for the platforms logged 'ok', and the returned
\* total is the sum of the inserted counts.
C29_CrawlLoop ==
    run.pc = "returned" =>
        /\ [i \in DOMAIN crawl_log |-> crawl_log[i].platform]
              = SelectSeq(run.platforms, LAMBDA p : p \in CRAWLERS)
        /\ \A i \in DOMAIN crawl_log :
              /\ crawl_log[i].crawl_time = run.crawl_time
              /\ crawl_log[i].status \in {"ok", "error"}
              /\ crawl_log[i].status = "error" <=> crawl_log[i].count = 0
        /\ \A r \in Range(dramas.rows) : r.crawl_time = run.crawl_time
        /\ {r.platform : r \in Range(dramas.rows)}
              = {crawl_log[i].platform :
                    i \in {j \in DOMAIN crawl_log : crawl_log[j].status = "ok"}}
        /\ run.total = CountSum(crawl_log)
        /\ run.total = dramas.seq
        /\ Len(run.errors) =
              Len(run.platforms)
              - Cardinality({i \in DOMAIN crawl_log : crawl_log[i].status = "ok"})

\* A crawler raised, and the platform after it was crawled and stored, the
\* clock having moved on since the crawl began.
C29_Witness ==
    /\ run.pc = "returned"
    /\ Len(crawl_log) = 2
    /\ crawl_log[1].message = "exception"
    /\ crawl_log[2].status = "ok"
    /\ now > run.crawl_time

C29_WitnessNoResults ==
    /\ run.pc = "returned"
    /\ Len(crawl_log) = 2
    /\ crawl_log[1].message = "No results"
    /\ crawl_log[2].status = "ok"

\* The place of a step in the order crawl, report, export, notify.
StepPlace(step) ==
    CASE step = "crawl" -> 1
      [] step = "report" -> 2
      [] step = "export" -> 3
      [] step = "notify" -> 4

\* The run went past the reading of its flags without --setup or --help.
stepping == run.pc # "idle" /\ run.args \cap {"--setup", "--help"} = {}

\* C30: in run.main the steps execute in the order crawl, report, export,
\* notify, and every selected step of a run that returned was executed;
\* notifications are sent only after a report was generated in the same
\* run; the run ends with exit status 1 exactly when its crawl collected
\* zero entries and neither report nor notify was selected, and then
\* nothing but the crawl was executed; otherwise the report and the export
\* are asked for the crawl time that crawl returned.
C30_MainSteps ==
    stepping =>
        /\ \A i, j \in DOMAIN run.steps :
              i < j => StepPlace(run.steps[i]) < StepPlace(run.steps[j])
        /\ run.status = "returned" =>
              /\ run.flags.crawl_only <=> "crawl" \in Range(run.steps)
              /\ run.flags.report_only => "report" \in Range(run.steps)
              /\ run.flags.export_only <=> "export" \in Range(run.steps)
              /\ run.flags.notify_only <=> "notify" \in Range(run.steps)
        /\ "notify" \in Range(run.steps) =>
              /\ "report" \in Range(run.steps)
              /\ report.kind \notin {"none", "raised"}
        /\ run.status = "exit 1" <=>
              /\ "crawl" \in Range(run.steps)
              /\ run.total = 0
              /\ ~run.flags.report_only
              /\ ~run.flags.notify_only
        /\ run.status = "exit 1" => run.steps = <<"crawl">>
        /\ "crawl" \in Range(run.steps) =>
              /\ run.crawl_time # None
              /\ \A i \in DOMAIN crawl_log :
                    crawl_log[i].crawl_time = run.crawl_time
              /\ "report" \in Range(run.steps) => run.report_arg = run.crawl_time
              /\ "export" \in Range(run.steps) => run.export_arg = run.crawl_time

\* A crawl that collected nothing is followed by the report, the export
\* and the notification of the same run.
C30_Witness ==
    /\ stepping
    /\ run.status = "returned"
    /\ run.total = 0
    /\ run.steps = <<"crawl", "report", "export", "notify">>

\* A crawl that collected nothing ends a run of crawl and export.
C30_WitnessExit ==
    /\ stepping
    /\ run.status = "exit 1"
    /\ run.flags.export_only
    /\ exported = NoExport


====
